---- MODULE Spec2Model ----
(***************************************************************************)
(* A model of the scan orchestration of IP-Scanner-v2: the request         *)
(* handlers of app.py (start_scan, start_target_scan, stop_scan, the       *)
(* websocket endpoint) and the two worker coroutines of scanner.py         *)
(* (scan_worker, scan_target_worker) with notify_ws.                       *)
(*                                                                         *)
(* asyncio runs one coroutine at a time and switches only at an await that *)
(* really suspends.  Every action below is one such synchronous segment:   *)
(* from the resumption of a coroutine to its next suspending await.        *)
(***************************************************************************)
EXTENDS Integers, Sequences, FiniteSets, TLC

\* ------------------------------------------------------------------ bounds
\* Worker tasks (accepted starts) the model follows.
MaxRuns == 2
\* Batches the workers may dispatch, all together.
MaxBatches == 2
\* Websocket objects that may ever connect.
MaxSockets == 2

\* ------------------------------------------------------- program constants
RandomBatchSize == 50
TargetBatchSize == 20
MaxTargets == 100000
MinPrefixLen == 16

ValidPorts == {80, 443, 8080, 8443}

Workers == 1..MaxRuns
\* Websocket objects are numbered from 1; 0 stands for no websocket.
Sockets == 1..MaxSockets

\* start_time is None or a reading of time.time().
NoTime == "None"
Recorded == "time.time()"

\* ------------------------------------------------------------------ inputs
\* request.ports of a start request.
PortLists == { <<80, 443, 22>>, <<22>> }

Ip(a) == [kind |-> "ip", addr |-> a, prefix |-> 32]
Cidr(a, p) == [kind |-> "cidr", addr |-> a, prefix |-> p]
Junk == [kind |-> "junk", addr |-> 0, prefix |-> 0]

\* request.targets, already split into its tokens.  Addresses are 32-bit
\* numbers: 16843009 is 1.1.1.1, 1677721616 is 100.0.0.16 and 167772160 is
\* 10.0.0.0.
TargetTexts ==
    { <<Ip(16843009), Ip(16843009)>>,
      <<Cidr(1677721616, 28)>>,
      <<Cidr(1677721616, 16)>>,
      <<Cidr(167772160, 8)>>,
      <<Junk>> }

\* 50000 addresses, which with two valid ports make exactly 100000 probes,
\* and 50001 addresses.  1677721600 is 100.0.0.0.
FullText ==
    << Cidr(1677721600, 17), Cidr(1677721600, 18), Cidr(1677721600, 23),
       Cidr(1677721600, 24), Cidr(1677721600, 26), Cidr(1677721600, 28),
       Cidr(1677721600, 29), Cidr(1677721600, 30), Cidr(1677721600, 31),
       Cidr(1677721600, 31) >>
LimitTexts == { FullText, FullText \o <<Ip(16843009)>> }

\* The results of a batch: the positions, among its first probes, of the
\* probes that found a service.  Every other probe returned None.
HitPatterns == { {}, {2}, {1, 2} }

\* time.time() - rate_start after a batch, in whole seconds.
Elapsed == {0, 2}

\* ------------------------------------------------------------ pure helpers
Min(a, b) == IF a < b THEN a ELSE b

Range(s) == { s[k] : k \in 1..Len(s) }

RECURSIVE FilterSeq(_, _)
FilterSeq(s, keep) ==
    IF s = <<>> THEN <<>>
    ELSE IF Head(s) \in keep THEN <<Head(s)>> \o FilterSeq(Tail(s), keep)
         ELSE FilterSeq(Tail(s), keep)

\* The request's ports taken as they are.
FilterPorts_All(ports) == ports

\* [p for p in request.ports if p in (80, 443, 8080, 8443)]
FilterPorts(ports) == FilterSeq(ports, ValidPorts)

\* list(network.hosts()) with the network and the broadcast address kept.
HostsOf_WholeBlock(tok) ==
    LET size == 2 ^ (32 - tok.prefix)
    IN  [first |-> tok.addr - (tok.addr % size), n |-> size]

\* list(network.hosts()) as one run of consecutive addresses: the network and
\* the broadcast address are left out, except for a /31 and a /32.
HostsOf(tok) ==
    LET size == 2 ^ (32 - tok.prefix)
        net == tok.addr - (tok.addr % size)
    IN  IF tok.prefix >= 31 THEN [first |-> net, n |-> size]
        ELSE [first |-> net + 1, n |-> size - 2]

\* The addresses one token of the input contributes, as runs [first, n].
TokenIps(tok) ==
    CASE tok.kind = "cidr" ->
            IF tok.prefix < MinPrefixLen THEN <<>> ELSE <<HostsOf(tok)>>
      [] tok.kind = "ip" -> << [first |-> tok.addr, n |-> 1] >>
      [] OTHER -> <<>>

RECURSIVE ParseTargetIps(_)
\* parse_target_ips with an entry that is in the list already left out.
ParseTargetIps_Dedup(text) ==
    IF text = <<>> THEN <<>>
    ELSE LET ips == ParseTargetIps(SubSeq(text, 1, Len(text) - 1))
             new == TokenIps(text[Len(text)])
         IN  ips \o SelectSeq(new, LAMBDA run : run \notin Range(ips))

\* parse_target_ips: the list ips, kept as the sequence of its runs.
ParseTargetIps(text) ==
    IF text = <<>> THEN <<>>
    ELSE TokenIps(Head(text)) \o ParseTargetIps(Tail(text))

\* len() of a list kept as runs.
RECURSIVE ListLen(_)
ListLen(runs) ==
    IF runs = <<>> THEN 0 ELSE Head(runs).n + ListLen(Tail(runs))

\* The quotient with its fraction cut off.
Round_Down(rc, e) == rc \div e

\* Python's round(rc / e) for whole rc >= 0 and e >= 1: ties go to the even
\* neighbour.
Round(rc, e) ==
    LET q == rc \div e
        r == rc % e
    IN  IF 2 * r < e THEN q
        ELSE IF 2 * r > e THEN q + 1
        ELSE IF q % 2 = 0 THEN q ELSE q + 1

\* ------------------------------------------------------------------- state
VARIABLES
    scan_state,      \* scanner.scan_state
    ws_connections,  \* scanner.ws_connections, a list of websocket objects
    task,            \* the worker tasks asyncio.create_task made, by number
    ep,              \* each websocket's endpoint coroutine
    response,        \* the HTTP status of the last request handler's answer
    content,         \* what that answer says: its "status", or its "error"
    hist,            \* history since the last accepted start
    probe,           \* one call of scan_single_ip at its vulnerability check
    gen,             \* one call of generate_random_ip
    path_scan,       \* one call of check_exposed_paths
    parsed,          \* one call of parse_target_ips
    inbox,           \* the start requests of a burst, each with its answer
    calls            \* the scan_single_ip calls of the batch in flight

vars == <<scan_state, ws_connections, task, ep, response, content, hist, probe,
          gen, path_scan, parsed, inbox, calls>>

\* reset_scan_state
ResetState ==
    [ running |-> FALSE, total_scanned |-> 0, total_found |-> 0,
      current_rate |-> 0, start_time |-> NoTime, mode |-> "random",
      target_total |-> 0, target_done |-> 0 ]

\* A task slot before create_task fills it, and the locals of a worker that
\* is not running any more.  sent counts the probes the worker has
\* dispatched, and batch is the number of its last batch among all the
\* batches dispatched.
NoTask ==
    [ pc |-> "none", kind |-> "random", ports |-> <<>>, target_ips |-> <<>>,
      i |-> 0, ntasks |-> 0, sent |-> 0, batch |-> 0, hits |-> {}, cursor |-> 0,
      rate_counter |-> 0, ret |-> "none", msg |-> <<>>, idx |-> 0, sending |-> 0,
      connected |-> FALSE, disconnected |-> <<>>, attempted |-> {}, present |-> {} ]

\* persisted, published: rows inserted and result events published since the
\* last accepted start; stopped: a stop was accepted since then; batches:
\* the batches dispatched so far; probes, hits: the probes of the batches
\* that have joined since the last accepted start, and those of them that
\* returned a result; first: the batches dispatched before the last accepted
\* start; last: the highest number of a batch of which a result event has
\* been published since then.
NoHist ==
    [ persisted |-> 0, published |-> 0, stopped |-> FALSE, batches |-> 0,
      probes |-> 0, hits |-> 0, first |-> 0, last |-> 0 ]

\* No call of scan_single_ip is followed.
NoProbe == [pc |-> "none"]

\* No call of generate_random_ip is followed.
NoGen == [pc |-> "none"]

\* No call of check_exposed_paths is followed.
NoPathScan == [pc |-> "none"]

\* No call of parse_target_ips is followed.
NoParse == [pc |-> "none"]

\* The clients whose start requests are followed, and no request of theirs
\* received.
Requests == {"a", "b", "c"}
NoInbox == [r \in Requests |-> [at |-> "none"]]

\* No batch has been followed call by call.
NoCalls == [pc |-> "none", batch |-> 0]

Init ==
    /\ scan_state = ResetState
    /\ ws_connections = <<>>
    /\ task = [w \in Workers |-> NoTask]
    /\ ep = [s \in Sockets |-> "none"]
    /\ response = 0
    /\ content = "none"
    /\ hist = NoHist
    /\ probe = NoProbe
    /\ gen = NoGen
    /\ path_scan = NoPathScan
    /\ parsed = NoParse
    /\ inbox = NoInbox
    /\ calls = NoCalls

\* ------------------------------------------------- the workers' segments
\* What one synchronous segment of worker w reads and writes: scan_state,
\* the worker's locals, ws_connections and the history; ep is only read.
Cfg(w) ==
    [st |-> scan_state, t |-> task[w], ws |-> ws_connections, h |-> hist,
     ep |-> ep]

\* ws.send_text(message) is called and awaited; connected tells whether the
\* websocket was still connected at the call.
SendText(c, ws) ==
    [c EXCEPT !.t.sending = ws, !.t.connected = (c.ep[ws] = "open"),
              !.t.attempted = @ \cup {ws}]

IsTarget(t) == t.kind = "target"

\* len(all_tasks) of scan_target_worker
AllTasksLen(t) == ListLen(t.target_ips) * Len(t.ports)

\* The "data" of the status event after a batch: the target worker writes
\* "target" for the mode and adds target_total and target_done.
StatusData(c) ==
    LET data == [ running |-> c.st.running, total_scanned |-> c.st.total_scanned,
                  total_found |-> c.st.total_found,
                  current_rate |-> c.st.current_rate ]
    IN  IF IsTarget(c.t)
        THEN data @@ [ mode |-> "target", target_total |-> c.st.target_total,
                       target_done |-> c.st.target_done ]
        ELSE data @@ [ mode |-> c.st.mode ]

\* The "data" of the final status event: running is written as False and
\* current_rate as 0.
FinalData(c) ==
    [StatusData(c) EXCEPT !.running = FALSE, !.current_rate = 0]

\* The message of a notify_ws call: the data of a status event, and for a
\* result event its kind only.
Message(c, ret) ==
    CASE ret = "status" -> StatusData(c)
      [] ret = "final" -> FinalData(c)
      [] OTHER -> <<>>

\* notify_ws from its call to its first await: nothing is awaited when
\* ws_connections is empty, and the call returns within the segment.
NotifyStart(c, ret) ==
    IF c.ws = <<>>
    THEN [c EXCEPT !.t.pc = "returned", !.t.ret = ret]
    ELSE SendText([c EXCEPT !.t.pc = "notify", !.t.ret = ret,
                            !.t.msg = Message(c, ret), !.t.idx = 1,
                            !.t.disconnected = <<>>, !.t.attempted = {},
                            !.t.present = Range(c.ws)],
                  c.ws[1])

\* await asyncio.sleep(0.01) at the end of a loop iteration
Sleep(c) == [c EXCEPT !.t.pc = "sleep"]

\* After the status event of a batch: the sleep, unless notify_ws suspended.
AfterStatus(c) == IF c.t.pc = "returned" THEN Sleep(c) ELSE c

\* The status event of a batch is published in target mode after every
\* batch, in random mode only when the rate has been recomputed.
StatusDue(t, recomputed) == IsTarget(t) \/ recomputed

\* A batch of which only the probes that returned a result are counted.
Accounting_HitsOnly(c, e) ==
    Sleep([c EXCEPT !.st.total_scanned = @ + Cardinality(c.t.hits)])

\* The lines after the result loop: total_scanned, the rate, the status
\* event.  e is the whole number of seconds in time.time() - rate_start.
Accounting(c, e) ==
    LET rc == c.t.rate_counter + c.t.ntasks
        recomputed == e >= 1
        c1 == [c EXCEPT !.st.total_scanned = @ + c.t.ntasks,
                        !.st.current_rate = IF recomputed THEN Round(rc, e) ELSE @,
                        !.t.rate_counter = IF recomputed THEN 0 ELSE rc]
    IN  IF StatusDue(c.t, recomputed)
        THEN AfterStatus(NotifyStart(c1, "status"))
        ELSE Sleep(c1)

\* The result loop without its break.
BreakResults_Never(c) == FALSE

\* "if not scan_state['running']: break" at the top of the result loop
BreakResults(c) == ~c.st.running

\* The result loop from the result after t.cursor to the next await: the
\* break when running is false, target_done for every result visited, and
\* save_result for the first result that is a dict.
ProcessLoop(c, e) ==
    IF BreakResults(c) THEN Accounting(c, e)
    ELSE LET rest == { h \in c.t.hits : h > c.t.cursor }
             stop == IF rest = {} THEN c.t.ntasks
                     ELSE CHOOSE h \in rest : \A g \in rest : h <= g
             visited == stop - c.t.cursor
             c1 == [c EXCEPT !.t.cursor = stop,
                             !.st.target_done =
                                 IF IsTarget(c.t) THEN @ + visited ELSE @]
         IN  IF rest = {} THEN Accounting(c1, e)
             ELSE [c1 EXCEPT !.t.pc = "saving"]

\* gather(*tasks) is awaited with a new batch of n probes.
Dispatch(c, n) ==
    IF c.h.batches >= MaxBatches THEN [c EXCEPT !.t.pc = "capped"]
    ELSE [c EXCEPT !.t.pc = "gather", !.t.ntasks = n, !.t.sent = @ + n,
                   !.t.batch = c.h.batches + 1, !.t.hits = {},
                   !.t.cursor = 0, !.h.batches = @ + 1,
                   !.t.i = IF IsTarget(c.t) THEN @ + TargetBatchSize ELSE @]

\* After the final status event.
Done(c) == [c EXCEPT !.t.pc = "done"]

\* Leaving the run loop: scan_target_worker clears running, and both
\* workers publish the final status event.
ExitLoop(c) ==
    LET c1 == IF IsTarget(c.t) THEN [c EXCEPT !.st.running = FALSE] ELSE c
        c2 == NotifyStart(c1, "final")
    IN  IF c2.t.pc = "returned" THEN Done(c2) ELSE c2

\* The loop condition: "while scan_state['running']" of scan_worker, and of
\* scan_target_worker the range of the for loop with the break on running.
StaysInLoop(c) ==
    IF IsTarget(c.t) THEN c.t.i < AllTasksLen(c.t) /\ c.st.running
    ELSE c.st.running

\* The run loop with 50 probes in a batch of scan_worker.
LoopHead_FiftyProbes(c) ==
    IF StaysInLoop(c)
    THEN Dispatch(c, IF IsTarget(c.t)
                     THEN Min(TargetBatchSize, AllTasksLen(c.t) - c.t.i)
                     ELSE RandomBatchSize)
    ELSE ExitLoop(c)

\* The head of the run loop: the next batch, or the exit.  The 50 addresses
\* of a random batch are each probed on every port.
LoopHead(c) ==
    IF StaysInLoop(c)
    THEN Dispatch(c, IF IsTarget(c.t)
                     THEN Min(TargetBatchSize, AllTasksLen(c.t) - c.t.i)
                     ELSE RandomBatchSize * Len(c.t.ports))
    ELSE ExitLoop(c)

\* The first lines of a worker: scan_target_worker sets target_total and
\* target_done before its loop.
WorkerEntry(c) ==
    IF IsTarget(c.t)
    THEN [c EXCEPT !.st.target_total = AllTasksLen(c.t), !.st.target_done = 0]
    ELSE c

\* The continuation of a notify_ws call that has returned.
AfterNotify(c, e) ==
    CASE c.t.ret = "result" -> ProcessLoop(c, e)
      [] c.t.ret = "status" -> Sleep(c)
      [] OTHER -> Done(c)

\* "for ws in disconnected: ws_connections.remove(ws)": list.remove raises
\* ValueError for a websocket that is not in the list any more.
RECURSIVE RemoveAll(_, _)
RemoveAll(ws, disc) ==
    IF disc = <<>> THEN [ws |-> ws, raised |-> FALSE]
    ELSE IF Head(disc) \notin Range(ws) THEN [ws |-> ws, raised |-> TRUE]
    ELSE RemoveAll(SelectSeq(ws, LAMBDA x : x # Head(disc)), Tail(disc))

\* An exception leaves the coroutine: the task ends.
Raise(c) == [c EXCEPT !.t.pc = "dead"]

\* notify_ws after send_text has returned (ok) or raised: the list iterator
\* takes the element at its index in the list as it is now, and after the
\* last one the websockets that failed are removed.
NotifyStep(c, ok, e) ==
    LET disc == IF ok THEN c.t.disconnected
                ELSE Append(c.t.disconnected, c.t.sending)
    IN  IF c.t.idx < Len(c.ws)
        THEN SendText([c EXCEPT !.t.idx = @ + 1, !.t.disconnected = disc],
                      c.ws[c.t.idx + 1])
        ELSE LET r == RemoveAll(c.ws, disc)
                 c1 == [c EXCEPT !.ws = r.ws, !.t.disconnected = disc]
             IN  IF r.raised THEN Raise(c1) ELSE AfterNotify(c1, e)

\* The lines between save_result and notify_ws: the id, total_found, and the
\* result event.
CountResult(c) ==
    [c EXCEPT !.st.total_found = @ + 1, !.h.published = @ + 1,
              !.h.last = IF c.t.batch > @ THEN c.t.batch ELSE @]

AfterSave(c, e) ==
    LET c1 == NotifyStart(CountResult(c), "result")
    IN  IF c1.t.pc = "returned" THEN AfterNotify(c1, e) ELSE c1

\* The locals that are dead at a suspension point are cleared.
Canon(t) ==
    IF t.pc \in {"done", "dead"} THEN [NoTask EXCEPT !.pc = t.pc, !.kind = t.kind]
    ELSE IF t.pc = "notify" THEN t
    ELSE [t EXCEPT !.ret = "none", !.msg = <<>>, !.idx = 0, !.sending = 0,
                   !.connected = FALSE, !.disconnected = <<>>, !.attempted = {}, !.present = {}]

\* A websocket that leaves ws_connections has not been in it for the whole
\* of any notify_ws call in progress.
StillPresent(tasks, ws) ==
    [w \in Workers |-> [tasks[w] EXCEPT !.present = @ \cap Range(ws)]]

\* What a segment of worker w that ends in configuration c has written.
Written(w, c) ==
    /\ c.t.pc # "capped"
    /\ scan_state' = c.st
    /\ ws_connections' = c.ws
    /\ hist' = c.h
    /\ task' = StillPresent([task EXCEPT ![w] = Canon(c.t)], c.ws)

\* The state after a segment of worker w that ends in configuration c.
Commit(w, c) ==
    /\ Written(w, c)
    /\ UNCHANGED <<ep, response, content, probe, gen, path_scan, parsed, inbox, calls>>

\* The task starts to run: the lines before the loop and the first batch.
WorkerBegin(w) ==
    /\ task[w].pc = "start"
    /\ Commit(w, LoopHead(WorkerEntry(Cfg(w))))

\* The worker's segment after gather has returned the results hits, e
\* seconds after rate_start.
AfterGather(w, hits, e) ==
    ProcessLoop([Cfg(w) EXCEPT !.t.hits = hits,
                               !.h.probes = @ + task[w].ntasks,
                               !.h.hits = @ + Cardinality(hits)], e)

\* gather returns with the results hits, e seconds after rate_start.
JoinAt(w, hits, e) ==
    /\ task[w].pc = "gather"
    /\ hits \subseteq 1..task[w].ntasks
    /\ Commit(w, AfterGather(w, hits, e))

\* gather returns: each of the first probes has found a service or not.
Join(w) == \E hits \in HitPatterns, e \in Elapsed : JoinAt(w, hits, e)

\* The row is inserted and committed while save_result is awaited.
SaveCommitted(w) ==
    /\ task[w].pc = "saving"
    /\ Commit(w, [Cfg(w) EXCEPT !.t.pc = "saved", !.h.persisted = @ + 1])

\* The storage fails: save_result raises into the worker.
SaveFailed(w) ==
    /\ task[w].pc = "saving"
    /\ Commit(w, Raise(Cfg(w)))

\* save_result returns to the worker, e seconds after rate_start.
SaveReturnedAt(w, e) ==
    /\ task[w].pc = "saved"
    /\ Commit(w, AfterSave(Cfg(w), e))

\* save_result returns to the worker.
SaveReturned(w) == \E e \in Elapsed : SaveReturnedAt(w, e)

\* send_text returns, or raises: it always raises for a websocket that had
\* disconnected before the call.
SendDone(w) ==
    /\ task[w].pc = "notify"
    /\ \E ok \in BOOLEAN, e \in Elapsed :
          /\ ok => task[w].connected
          /\ Commit(w, NotifyStep(Cfg(w), ok, e))

\* asyncio.sleep(0.01) returns.
Wake(w) ==
    /\ task[w].pc = "sleep"
    /\ Commit(w, LoopHead(Cfg(w)))

\* ------------------------------------------------------ request handlers
\* A start handler that resets nothing.
StartedState_NoReset(mode) ==
    [scan_state EXCEPT !.running = TRUE, !.mode = mode, !.start_time = Recorded]

\* An accepted start that leaves running as the reset has set it.
StartedState_NotRunning(mode) ==
    [ResetState EXCEPT !.mode = mode, !.start_time = Recorded]

\* reset_scan_state, running, mode and start_time of an accepted start
StartedState(mode) ==
    [ResetState EXCEPT !.running = TRUE, !.mode = mode, !.start_time = Recorded]

\* A target start without its limit.
ExceedsLimit_Never(total_targets) == FALSE

\* "if total_targets > 100000" of start_target_scan
ExceedsLimit(total_targets) == total_targets > MaxTargets

\* stop_scan without its check of running.
Idle_Never == FALSE

\* "if not scan_state['running']" at the top of stop_scan
Idle == ~scan_state.running

\* A start handler without its check of running.
Conflict_Never == FALSE

\* "if scan_state['running']" at the top of start_scan and start_target_scan
Conflict == scan_state.running

\* The error messages of the handlers.
AlreadyRunning == "already running"
NoValidPort == "no valid port"
NoAddress == "no valid address"
TooManyTargets == "too many targets"
NotRunning == "not running"

\* A handler returns a JSONResponse with status 400 and changes nothing.
Reject(error) ==
    /\ response' = 400
    /\ content' = error
    /\ UNCHANGED <<scan_state, ws_connections, task, ep, hist, probe, gen, path_scan, parsed, calls>>

\* An accepted start: the state is reset and asyncio.create_task makes the
\* worker, which runs only after the handler has returned.
Accept(mode, ports, ips) ==
    \E w \in Workers :
        /\ task[w].pc = "none"
        /\ \A v \in Workers : v < w => task[v].pc # "none"
        /\ scan_state' = StartedState(mode)
        /\ task' = [task EXCEPT ![w] = [NoTask EXCEPT !.pc = "start", !.kind = mode,
                                                      !.ports = ports,
                                                      !.target_ips = ips]]
        /\ hist' = [NoHist EXCEPT !.batches = hist.batches, !.first = hist.batches]
        /\ response' = 200
        /\ content' = "started"
        /\ UNCHANGED <<ws_connections, ep, probe, gen, path_scan, parsed, calls>>

\* POST /api/scan/start
StartScan(ports) ==
    IF Conflict THEN Reject(AlreadyRunning)
    ELSE IF FilterPorts(ports) = <<>> THEN Reject(NoValidPort)
    ELSE Accept("random", FilterPorts(ports), <<>>)

\* POST /api/scan/target
StartTargetScan(text, ports) ==
    LET target_ips == ParseTargetIps(text)
        valid_ports == FilterPorts(ports)
    IN  IF Conflict THEN Reject(AlreadyRunning)
        ELSE IF target_ips = <<>> THEN Reject(NoAddress)
        ELSE IF valid_ports = <<>> THEN Reject(NoValidPort)
        ELSE IF ExceedsLimit(ListLen(target_ips) * Len(valid_ports))
             THEN Reject(TooManyTargets)
        ELSE Accept("target", valid_ports, target_ips)

\* POST /api/scan/stop
StopScan ==
    IF Idle THEN Reject(NotRunning)
    ELSE /\ scan_state' = [scan_state EXCEPT !.running = FALSE]
         /\ hist' = [hist EXCEPT !.stopped = TRUE]
         /\ response' = 200
         /\ content' = "stopped"
         /\ UNCHANGED <<ws_connections, task, ep, probe, gen, path_scan, parsed, calls>>

\* websocket_endpoint up to receive_text: a new websocket is accepted and
\* appended to ws_connections.
WsConnect ==
    \E s \in Sockets :
        /\ ep[s] = "none"
        /\ \A r \in Sockets : r < s => ep[r] # "none"
        /\ ep' = [ep EXCEPT ![s] = "open"]
        /\ ws_connections' = Append(ws_connections, s)
        /\ UNCHANGED <<scan_state, task, response, content, hist, probe, gen, path_scan, parsed, inbox, calls>>

\* receive_text raises WebSocketDisconnect: the endpoint removes its
\* websocket if it is still in the list.
WsDisconnect(s) ==
    /\ ep[s] = "open"
    /\ ep' = [ep EXCEPT ![s] = "closed"]
    /\ ws_connections' = SelectSeq(ws_connections, LAMBDA x : x # s)
    /\ task' = StillPresent(task, ws_connections')
    /\ UNCHANGED <<scan_state, response, content, hist, probe, gen, path_scan, parsed, inbox, calls>>

\* The requests and the workers, with no websocket connected.
Next ==
    \/ \E ports \in PortLists : StartScan(ports) /\ UNCHANGED inbox
    \/ \E text \in TargetTexts, ports \in PortLists :
          StartTargetScan(text, ports) /\ UNCHANGED inbox
    \/ StopScan /\ UNCHANGED inbox
    \/ \E w \in Workers : WorkerBegin(w)
    \/ \E w \in Workers : Join(w)
    \/ \E w \in Workers : SaveCommitted(w)
    \/ \E w \in Workers : SaveFailed(w)
    \/ \E w \in Workers : SaveReturned(w)
    \/ \E w \in Workers : Wake(w)

Spec == Init /\ [][Next]_vars

\* No start request arrives after the first run has stopped.
FirstRun == scan_state.running \/ \A w \in Workers : task[w].pc = "none"

\* One run, with websockets that connect and disconnect.
NextWs ==
    \/ \E ports \in PortLists : FirstRun /\ StartScan(ports) /\ UNCHANGED inbox
    \/ \E text \in TargetTexts, ports \in PortLists :
          FirstRun /\ StartTargetScan(text, ports) /\ UNCHANGED inbox
    \/ StopScan /\ UNCHANGED inbox
    \/ WsConnect
    \/ \E s \in Sockets : WsDisconnect(s)
    \/ \E w \in Workers : WorkerBegin(w)
    \/ \E w \in Workers : Join(w)
    \/ \E w \in Workers : SaveCommitted(w)
    \/ \E w \in Workers : SaveFailed(w)
    \/ \E w \in Workers : SaveReturned(w)
    \/ \E w \in Workers : SendDone(w)
    \/ \E w \in Workers : Wake(w)

SpecWs == Init /\ [][NextWs]_vars

\* ------------------------------------------------- vulnerability checks
\* A header name is the sequence of its characters.
UpperLetters ==
    << "A", "B", "C", "D", "E", "F", "G", "H", "I", "J", "K", "L", "M",
       "N", "O", "P", "Q", "R", "S", "T", "U", "V", "W", "X", "Y", "Z" >>
LowerLetters ==
    << "a", "b", "c", "d", "e", "f", "g", "h", "i", "j", "k", "l", "m",
       "n", "o", "p", "q", "r", "s", "t", "u", "v", "w", "x", "y", "z" >>

\* str.lower() and str.upper(), character by character
Recase(ch, from, to) ==
    IF \E k \in DOMAIN from : from[k] = ch
    THEN to[CHOOSE k \in DOMAIN from : from[k] = ch]
    ELSE ch
Lower(str) == [k \in 1..Len(str) |-> Recase(str[k], UpperLetters, LowerLetters)]
Upper(str) == [k \in 1..Len(str) |-> Recase(str[k], LowerLetters, UpperLetters)]

\* The risk levels, highest first, as summarize_vulns goes through them.
RiskLevels == <<"critical", "high", "medium", "low", "info">>

\* SECURITY_HEADERS, in the order of the dict
SECURITY_HEADERS ==
    <<
       [ header |-> <<"S", "t", "r", "i", "c", "t", "-", "T", "r", "a",
                      "n", "s", "p", "o", "r", "t", "-", "S", "e", "c",
                      "u", "r", "i", "t", "y">>,
         name |-> "HSTS", risk |-> "medium" ],
       [ header |-> <<"X", "-", "F", "r", "a", "m", "e", "-", "O", "p",
                      "t", "i", "o", "n", "s">>,
         name |-> "X-Frame-Options", risk |-> "medium" ],
       [ header |-> <<"X", "-", "C", "o", "n", "t", "e", "n", "t", "-",
                      "T", "y", "p", "e", "-", "O", "p", "t", "i", "o",
                      "n", "s">>,
         name |-> "X-Content-Type-Options", risk |-> "low" ],
       [ header |-> <<"C", "o", "n", "t", "e", "n", "t", "-", "S", "e",
                      "c", "u", "r", "i", "t", "y", "-", "P", "o", "l",
                      "i", "c", "y">>,
         name |-> "CSP", risk |-> "medium" ],
       [ header |-> <<"X", "-", "X", "S", "S", "-", "P", "r", "o", "t",
                      "e", "c", "t", "i", "o", "n">>,
         name |-> "X-XSS-Protection", risk |-> "low" ],
       [ header |-> <<"R", "e", "f", "e", "r", "r", "e", "r", "-", "P",
                      "o", "l", "i", "c", "y">>,
         name |-> "Referrer-Policy", risk |-> "low" ],
       [ header |-> <<"P", "e", "r", "m", "i", "s", "s", "i", "o", "n",
                      "s", "-", "P", "o", "l", "i", "c", "y">>,
         name |-> "Permissions-Policy", risk |-> "low" ]
    >>

\* A header that is not tracked.
ServerHeader == <<"S", "e", "r", "v", "e", "r">>

\* SENSITIVE_PATHS
SENSITIVE_PATHS ==
    <<
       [ path |-> "/admin", risk |-> "high" ],
       [ path |-> "/admin/", risk |-> "high" ],
       [ path |-> "/administrator", risk |-> "high" ],
       [ path |-> "/wp-admin", risk |-> "high" ],
       [ path |-> "/wp-login.php", risk |-> "high" ],
       [ path |-> "/phpmyadmin", risk |-> "critical" ],
       [ path |-> "/phpmyadmin/", risk |-> "critical" ],
       [ path |-> "/cpanel", risk |-> "high" ],
       [ path |-> "/webmail", risk |-> "medium" ],
       [ path |-> "/.env", risk |-> "critical" ],
       [ path |-> "/.git/config", risk |-> "critical" ],
       [ path |-> "/.git/HEAD", risk |-> "critical" ],
       [ path |-> "/robots.txt", risk |-> "info" ],
       [ path |-> "/sitemap.xml", risk |-> "info" ],
       [ path |-> "/.htaccess", risk |-> "high" ],
       [ path |-> "/wp-config.php.bak", risk |-> "critical" ],
       [ path |-> "/server-status", risk |-> "medium" ],
       [ path |-> "/server-info", risk |-> "medium" ],
       [ path |-> "/.DS_Store", risk |-> "low" ],
       [ path |-> "/backup.sql", risk |-> "critical" ],
       [ path |-> "/dump.sql", risk |-> "critical" ],
       [ path |-> "/debug", risk |-> "high" ],
       [ path |-> "/api/swagger", risk |-> "medium" ],
       [ path |-> "/api/docs", risk |-> "medium" ],
       [ path |-> "/elmah.axd", risk |-> "high" ],
       [ path |-> "/trace.axd", risk |-> "high" ]
    >>

\* The finding of one entry of SECURITY_HEADERS.
MissingHeader(info) ==
    [type |-> "missing_header", name |-> info.name, risk |-> info.risk]

\* check_security_headers with the names compared as they are written.
CheckSecurityHeaders_CaseSensitive(headers) ==
    LET missing == SelectSeq(SECURITY_HEADERS, LAMBDA info : info.header \notin headers)
    IN  [k \in 1..Len(missing) |-> MissingHeader(missing[k])]

\* check_security_headers: headers are the keys of the response's headers.
CheckSecurityHeaders(headers) ==
    LET lowered == { Lower(k) : k \in headers }
        missing == SelectSeq(SECURITY_HEADERS,
                             LAMBDA info : Lower(info.header) \notin lowered)
    IN  [k \in 1..Len(missing) |-> MissingHeader(missing[k])]

\* check_directory_listing: body.listing tells whether one of
\* DIRECTORY_LISTING_PATTERNS is found in the body.
CheckDirectoryListing(body) ==
    IF body.listing
    THEN << [type |-> "directory_listing", name |-> "directory listing",
             risk |-> "medium"] >>
    ELSE <<>>

\* check_tech_fingerprint: body.tech lists the technologies that the
\* patterns detect in the headers and the body, each with its risk.
CheckTechFingerprint(body) ==
    [k \in 1..Len(body.tech) |->
        [type |-> "tech_detected", name |-> body.tech[k].name,
         risk |-> body.tech[k].risk]]

\* check_ssl_issues: ssl_info.expired tells whether the expiry date parses
\* to a date in the past, ssl_info.self_signed whether the issuer holds one
\* of the keywords.
CheckSslIssues(ssl_info, protocol) ==
    IF protocol = "http"
    THEN << [type |-> "ssl_issue", name |-> "HTTP", risk |-> "medium"] >>
    ELSE (IF ssl_info.expired
          THEN << [type |-> "ssl_issue", name |-> "expired", risk |-> "high"] >>
          ELSE <<>>)
         \o (IF ssl_info.self_signed
             THEN << [type |-> "ssl_issue", name |-> "self-signed", risk |-> "medium"] >>
             ELSE <<>>)

\* The finding of check_path for one path.
ExposedPath(path_info, status, risk) ==
    [type |-> "exposed_path", name |-> path_info.path, risk |-> risk,
     path |-> path_info.path, status |-> status]

\* check_path with a 403 reported at the risk of the catalog.
CheckPath_CatalogRisk(path_info, resp) ==
    IF resp.error THEN <<>>
    ELSE IF resp.status = 200
         THEN IF resp.body_len > 0
              THEN <<ExposedPath(path_info, resp.status, path_info.risk)>>
              ELSE <<>>
    ELSE IF resp.status = 403
         THEN <<ExposedPath(path_info, resp.status, path_info.risk)>>
    ELSE <<>>

\* check_path: the finding of one path as a list of one element, the empty
\* list for None.  resp.error: the request raised.
CheckPath(path_info, resp) ==
    IF resp.error THEN <<>>
    ELSE IF resp.status = 200
         THEN IF resp.body_len > 0
              THEN <<ExposedPath(path_info, resp.status, path_info.risk)>>
              ELSE <<>>
    ELSE IF resp.status = 403
         THEN <<ExposedPath(path_info, resp.status, "low")>>
    ELSE <<>>

\* check_exposed_paths: gather returns the results in the order of
\* SENSITIVE_PATHS, and the dicts among them are the findings.
RECURSIVE ExposedFrom(_, _)
ExposedFrom(k, responses) ==
    IF k > Len(SENSITIVE_PATHS) THEN <<>>
    ELSE CheckPath(SENSITIVE_PATHS[k], responses[k]) \o ExposedFrom(k + 1, responses)

CheckExposedPaths(responses) == ExposedFrom(1, responses)

\* summarize_vulns with the levels gone through from the lowest.
SummarizeVulns_Lowest(findings) ==
    LET present == { k \in DOMAIN RiskLevels :
                        \E f \in DOMAIN findings : findings[f].risk = RiskLevels[k] }
    IN  [ total |-> Len(findings),
          max_risk |-> IF present = {} THEN "info"
                       ELSE RiskLevels[CHOOSE k \in present : \A j \in present : j <= k] ]

\* summarize_vulns
SummarizeVulns(findings) ==
    LET risk_counts == [ level \in Range(RiskLevels) |->
                           Cardinality({ f \in DOMAIN findings : findings[f].risk = level }) ]
        first == { k \in DOMAIN RiskLevels : risk_counts[RiskLevels[k]] > 0 }
    IN  [ total |-> Len(findings),
          risk_counts |-> risk_counts,
          max_risk |-> IF first = {} THEN "info"
                       ELSE RiskLevels[CHOOSE k \in first : \A j \in first : k <= j] ]

\* ---------------------------------------- the probe's vulnerability check
\* The keys of the response's headers: none, an untracked one, the seven
\* tracked ones as SECURITY_HEADERS writes them, and three tracked ones of
\* which two are written in another case.
HeaderSets ==
    { {},
      {ServerHeader},
      { SECURITY_HEADERS[k].header : k \in DOMAIN SECURITY_HEADERS },
      { Lower(SECURITY_HEADERS[1].header), Upper(SECURITY_HEADERS[2].header),
        SECURITY_HEADERS[4].header, ServerHeader } }

\* What the patterns find in the body and the headers.
Bodies ==
    { [listing |-> FALSE, tech |-> <<>>],
      [listing |-> TRUE, tech |-> <<>>],
      [listing |-> FALSE,
       tech |-> << [name |-> "Apache 2.4.1", risk |-> "low"],
                   [name |-> "PHP 5.6", risk |-> "medium"] >>] }

\* The protocol of the probe and what its certificate shows.
TlsCases ==
    { [protocol |-> "http", ssl_info |-> [expired |-> FALSE, self_signed |-> FALSE]],
      [protocol |-> "https", ssl_info |-> [expired |-> FALSE, self_signed |-> FALSE]],
      [protocol |-> "https", ssl_info |-> [expired |-> TRUE, self_signed |-> FALSE]],
      [protocol |-> "https", ssl_info |-> [expired |-> TRUE, self_signed |-> TRUE]] }

\* The answers to the request for one path.
Found == [error |-> FALSE, status |-> 200, body_len |-> 120]
EmptyBody == [error |-> FALSE, status |-> 200, body_len |-> 0]
Forbidden == [error |-> FALSE, status |-> 403, body_len |-> 0]
NotFound == [error |-> FALSE, status |-> 404, body_len |-> 9]
Failed == [error |-> TRUE, status |-> 0, body_len |-> 0]
Answers == <<Found, EmptyBody, Forbidden, NotFound, Failed>>

\* The answers to the requests for all the paths: the same answer for every
\* path, the paths of one risk found and the others not, and every answer
\* in turn.
ResponseMaps ==
    { [k \in DOMAIN SENSITIVE_PATHS |-> a] : a \in Range(Answers) }
    \cup { [k \in DOMAIN SENSITIVE_PATHS |->
              IF SENSITIVE_PATHS[k].risk = level THEN Found ELSE NotFound] :
           level \in Range(RiskLevels) }
    \cup { [k \in DOMAIN SENSITIVE_PATHS |-> Answers[(k % Len(Answers)) + 1]] }

\* The five checks of run_vuln_scan, in its order.
Checks == <<"headers", "listing", "tech", "ssl", "paths">>

\* A call of scan_single_ip that has its response: what the response and
\* the later requests show, the check that raises if one does, and the
\* locals vuln_data, vuln_count and vuln_max_risk as they are initialised.
ProbeInputs ==
    [ pc : {"ready"}, headers : HeaderSets, body : Bodies, tls : TlsCases,
      responses : ResponseMaps, raises : {"none"} \cup Range(Checks),
      run_vuln_check : BOOLEAN, all_findings : {<<>>}, raised : {FALSE},
      findings : {<<>>}, vuln_data : {<<>>}, vuln_count : {0},
      vuln_max_risk : {"info"} ]

\* The findings of the four checks that run_vuln_scan calls without await.
SyncFindings(p) ==
    CheckSecurityHeaders(p.headers) \o CheckDirectoryListing(p.body)
    \o CheckTechFingerprint(p.body)
    \o CheckSslIssues(p.tls.ssl_info, p.tls.protocol)

\* The lines of scan_single_ip after run_vuln_scan has returned findings:
\* an empty list leaves vuln_data None (the empty list here), vuln_count 0
\* and vuln_max_risk "info".
Summarized(p, findings) ==
    LET vuln_summary == SummarizeVulns(findings)
    IN  IF findings = <<>> THEN [p EXCEPT !.pc = "done", !.findings = findings]
        ELSE [p EXCEPT !.pc = "done", !.findings = findings,
                       !.vuln_data = findings,
                       !.vuln_count = vuln_summary.total,
                       !.vuln_max_risk = vuln_summary.max_risk]

\* scan_single_ip comes to its vulnerability check.  Without run_vuln_check
\* it is skipped.  run_vuln_scan runs its first four checks; if one of them
\* raises, the exception leaves run_vuln_scan and scan_single_ip passes over
\* it; otherwise check_exposed_paths is awaited.
RunVulnScan ==
    /\ probe.pc = "ready"
    /\ probe' =
         IF ~probe.run_vuln_check THEN [probe EXCEPT !.pc = "done"]
         ELSE IF probe.raises \in Range(SubSeq(Checks, 1, 4))
              THEN [probe EXCEPT !.pc = "done", !.raised = TRUE]
         ELSE [probe EXCEPT !.pc = "paths", !.all_findings = SyncFindings(probe)]
    /\ UNCHANGED <<scan_state, ws_connections, task, ep, response, content, hist,
                   gen, path_scan, parsed, inbox, calls>>

\* check_exposed_paths returns or raises: run_vuln_scan passes over its
\* exception, returns all_findings, and scan_single_ip summarises them.
ExposedPathsDone ==
    /\ probe.pc = "paths"
    /\ LET exposed == IF probe.raises = "paths" THEN <<>>
                      ELSE CheckExposedPaths(probe.responses)
       IN  probe' = Summarized(probe, probe.all_findings \o exposed)
    /\ UNCHANGED <<scan_state, ws_connections, task, ep, response, content, hist,
                   gen, path_scan, parsed, inbox, calls>>

\* One call of scan_single_ip at its vulnerability check, for every input.
InitVuln ==
    /\ scan_state = ResetState
    /\ ws_connections = <<>>
    /\ task = [w \in Workers |-> NoTask]
    /\ ep = [s \in Sockets |-> "none"]
    /\ response = 0
    /\ content = "none"
    /\ hist = NoHist
    /\ probe \in ProbeInputs
    /\ gen = NoGen
    /\ path_scan = NoPathScan
    /\ parsed = NoParse
    /\ inbox = NoInbox
    /\ calls = NoCalls

NextVuln == RunVulnScan \/ ExposedPathsDone

SpecVuln == InitVuln /\ [][NextVuln]_vars

\* No worker is at work: every task that was created has ended.
Quiet == \A w \in Workers : task[w].pc \in {"none", "done", "dead"}

\* A start request arrives during a run, or when the worker of the run before
\* has ended.
InTurn == scan_state.running \/ Quiet

\* Runs one after another, with no websocket connected.
NextSeq ==
    \/ \E ports \in PortLists : InTurn /\ StartScan(ports) /\ UNCHANGED inbox
    \/ \E text \in TargetTexts \cup LimitTexts, ports \in PortLists :
          InTurn /\ StartTargetScan(text, ports) /\ UNCHANGED inbox
    \/ StopScan /\ UNCHANGED inbox
    \/ \E w \in Workers : WorkerBegin(w)
    \/ \E w \in Workers : Join(w)
    \/ \E w \in Workers : SaveCommitted(w)
    \/ \E w \in Workers : SaveFailed(w)
    \/ \E w \in Workers : SaveReturned(w)
    \/ \E w \in Workers : Wake(w)

SpecSeq == Init /\ [][NextSeq]_vars

\* ------------------------------------------------------- the IP generator
\* A 32-bit address is kept as its two 16-bit halves.  The four octets of
\* a dotted text are its numbers.
Half == 65536
Octet == 256

\* ipaddress.IPv4Address / IPv4Network of a dotted text: the number _ip.
FromOctets(o) == [hi |-> o[1] * Octet + o[2], lo |-> o[3] * Octet + o[4]]

\* str(ip): the dotted text of the number.
ToOctets(ip) == <<ip.hi \div Octet, ip.hi % Octet, ip.lo \div Octet, ip.lo % Octet>>

\* EXCLUDED_NETWORKS, in the order of the list
EXCLUDED_NETWORKS ==
    << [net |-> <<0, 0, 0, 0>>, prefix |-> 8],
       [net |-> <<10, 0, 0, 0>>, prefix |-> 8],
       [net |-> <<100, 64, 0, 0>>, prefix |-> 10],
       [net |-> <<127, 0, 0, 0>>, prefix |-> 8],
       [net |-> <<169, 254, 0, 0>>, prefix |-> 16],
       [net |-> <<172, 16, 0, 0>>, prefix |-> 12],
       [net |-> <<192, 0, 0, 0>>, prefix |-> 24],
       [net |-> <<192, 0, 2, 0>>, prefix |-> 24],
       [net |-> <<192, 88, 99, 0>>, prefix |-> 24],
       [net |-> <<192, 168, 0, 0>>, prefix |-> 16],
       [net |-> <<198, 18, 0, 0>>, prefix |-> 15],
       [net |-> <<198, 51, 100, 0>>, prefix |-> 24],
       [net |-> <<203, 0, 113, 0>>, prefix |-> 24],
       [net |-> <<224, 0, 0, 0>>, prefix |-> 4],
       [net |-> <<240, 0, 0, 0>>, prefix |-> 4],
       [net |-> <<255, 255, 255, 255>>, prefix |-> 32] >>

\* other._ip & netmask._ip: the bits below the prefix are cleared.
Masked(ip, prefix) ==
    IF prefix <= 16
    THEN [hi |-> ip.hi - (ip.hi % (2 ^ (16 - prefix))), lo |-> 0]
    ELSE [hi |-> ip.hi, lo |-> ip.lo - (ip.lo % (2 ^ (32 - prefix)))]

\* "ip in network" taken for false.
InNetwork_Never(ip, network) == FALSE

\* "ip in network": other._ip & netmask._ip == network_address._ip
InNetwork(ip, network) == Masked(ip, network.prefix) = FromOctets(network.net)

\* is_valid_global_ip
IsValidGlobalIp(ip) ==
    \A k \in DOMAIN EXCLUDED_NETWORKS : ~InNetwork(ip, EXCLUDED_NETWORKS[k])

\* The number d places after ip (before it for d < 0).
Offset(ip, d) ==
    [hi |-> ip.hi + ((ip.lo + d) \div Half), lo |-> (ip.lo + d) % Half]

\* The last address of a network.
LastOf(network) ==
    LET first == FromOctets(network.net)
    IN  IF network.prefix <= 16
        THEN [hi |-> first.hi + 2 ^ (16 - network.prefix) - 1, lo |-> Half - 1]
        ELSE [hi |-> first.hi, lo |-> first.lo + 2 ^ (32 - network.prefix) - 1]

\* a <= b for 32-bit numbers
Leq(a, b) == a.hi < b.hi \/ (a.hi = b.hi /\ a.lo <= b.lo)

\* random.randint(1, 0xFFFFFFFE) returns a number from 1 to 0xFFFFFFFE.
InDraw(ip) ==
    /\ ip.hi \in 0..(Half - 1)
    /\ Leq([hi |-> 0, lo |-> 1], ip)
    /\ Leq(ip, [hi |-> Half - 1, lo |-> Half - 2])

\* The draws followed: the ends of the range, and around the first and the
\* last address of every excluded network.
RandomInts ==
    { ip \in { [hi |-> 0, lo |-> 1], [hi |-> Half - 1, lo |-> Half - 2],
               FromOctets(<<1, 1, 1, 1>>), FromOctets(<<8, 8, 8, 8>>) }
             \cup UNION { { Offset(FromOctets(EXCLUDED_NETWORKS[k].net), d),
                            Offset(LastOf(EXCLUDED_NETWORKS[k]), d) } :
                          k \in DOMAIN EXCLUDED_NETWORKS, d \in {-2, -1, 0, 1, 2} } :
        InDraw(ip) }

\* generate_random_ip is called.
GenCall ==
    /\ gen = NoGen
    /\ gen' = [pc |-> "loop", retried |-> FALSE]
    /\ UNCHANGED <<scan_state, ws_connections, task, ep, response, content,
                   hist, probe, path_scan, parsed, inbox, calls>>

\* One turn of "while True": a number is drawn, and its address is returned
\* if is_valid_global_ip holds for it.
GenDraw ==
    /\ gen.pc = "loop"
    /\ \E random_int \in RandomInts :
          gen' = IF IsValidGlobalIp(random_int)
                 THEN [pc |-> "returned", retried |-> gen.retried,
                       random_int |-> random_int, ip |-> ToOctets(random_int)]
                 ELSE [pc |-> "loop", retried |-> TRUE, random_int |-> random_int]
    /\ UNCHANGED <<scan_state, ws_connections, task, ep, response, content,
                   hist, probe, path_scan, parsed, inbox, calls>>

NextIp == GenCall \/ GenDraw

\* Calls of generate_random_ip alone.
SpecIp == Init /\ [][NextIp]_vars

\* ------------------------------------------------- parse_target_ips alone
\* The tokens followed: two addresses, CIDR blocks of the prefix lengths 8,
\* 15, 16, 24 (written with host bits set), 28, 30, 31 and 32, and a token
\* that is no address.  134744072 is 8.8.8.8 and 1677721623 is 100.0.0.23.
ParseTokens ==
    { Ip(16843009), Ip(134744072), Junk,
      Cidr(167772160, 8), Cidr(1677721600, 15), Cidr(1677721616, 16),
      Cidr(1677721623, 24), Cidr(1677721616, 28), Cidr(1677721616, 30),
      Cidr(1677721616, 31), Cidr(1677721623, 32) }

\* target_input: the texts of one token and of two tokens.
ParseTexts ==
    { <<a>> : a \in ParseTokens } \cup { <<a, b>> : a, b \in ParseTokens }

\* parse_target_ips(target_input) is called and returns ips.
ParseCall ==
    /\ parsed = NoParse
    /\ \E target_input \in ParseTexts :
          parsed' = [pc |-> "returned", target_input |-> target_input,
                     ips |-> ParseTargetIps(target_input)]
    /\ UNCHANGED <<scan_state, ws_connections, task, ep, response, content,
                   hist, probe, gen, path_scan, inbox, calls>>

NextParse == ParseCall

\* Calls of parse_target_ips alone.
SpecParse == Init /\ [][NextParse]_vars

\* ---------------------------------------------- check_exposed_paths alone
\* asyncio.Semaphore(5)
PathLimit == 5

\* The answers to the requests of the call followed: every answer in turn.
TurnResponses == [k \in DOMAIN SENSITIVE_PATHS |-> Answers[(k % Len(Answers)) + 1]]

\* check_exposed_paths is called: the semaphore is made with the value 5 and
\* gather makes one task of limited_check for every path of the catalog.
\* at[k] is where the task of path k is, requests[k] the number of calls of
\* session.get for it, waiters the semaphore's queue.
PathScanCall ==
    /\ path_scan = NoPathScan
    /\ path_scan' =
         [ pc |-> "gather", responses |-> TurnResponses, value |-> PathLimit,
           waiters |-> <<>>,
           at |-> [k \in DOMAIN SENSITIVE_PATHS |-> "new"],
           requests |-> [k \in DOMAIN SENSITIVE_PATHS |-> 0],
           findings |-> <<>> ]
    /\ UNCHANGED <<scan_state, ws_connections, task, ep, response, content,
                   hist, probe, gen, parsed, inbox, calls>>

\* Semaphore.locked: the value is 0 or a task is in the queue.
Locked(c) == c.value = 0 \/ c.waiters # <<>>

\* check_path up to its await of session.get
StartGet(c, k) == [c EXCEPT !.at[k] = "get", !.requests[k] = @ + 1]

\* Semaphore._wake_up_next: the first task of the queue that has not been
\* woken takes the value and is woken.
WakeUpNext(c) ==
    LET asleep == { j \in DOMAIN c.waiters : c.at[c.waiters[j]] = "waiting" }
        first == CHOOSE j \in asleep : \A i \in asleep : j <= i
    IN  IF asleep = {} THEN c
        ELSE [c EXCEPT !.value = @ - 1, !.at[c.waiters[first]] = "woken"]

\* Semaphore.release
Release(c) == WakeUpNext([c EXCEPT !.value = @ + 1])

\* A semaphore that lets every task in.
Acquire_Unlimited(c, k) == StartGet(c, k)

\* Semaphore.acquire up to its await, and check_path after it when the
\* semaphore is free.
Acquire(c, k) ==
    IF ~Locked(c) THEN StartGet([c EXCEPT !.value = @ - 1], k)
    ELSE [c EXCEPT !.waiters = Append(@, k), !.at[k] = "waiting"]

\* The task of path k runs for the first time; the tasks start in the order
\* in which gather made them.
LimitedCheckBegin(k) ==
    /\ path_scan.pc = "gather"
    /\ path_scan.at[k] = "new"
    /\ \A j \in 1..(k - 1) : path_scan.at[j] # "new"
    /\ path_scan' = Acquire(path_scan, k)
    /\ UNCHANGED <<scan_state, ws_connections, task, ep, response, content,
                   hist, probe, gen, parsed, inbox, calls>>

\* The task of path k, woken by a release, goes on in acquire: it leaves the
\* queue, wakes the next task if the value is above 0, and calls check_path.
LimitedCheckResume(k) ==
    /\ path_scan.pc = "gather"
    /\ path_scan.at[k] = "woken"
    /\ path_scan.waiters # <<>> /\ Head(path_scan.waiters) = k
    /\ LET c == [path_scan EXCEPT !.waiters = Tail(@)]
       IN  path_scan' = StartGet(IF c.value > 0 THEN WakeUpNext(c) ELSE c, k)
    /\ UNCHANGED <<scan_state, ws_connections, task, ep, response, content,
                   hist, probe, gen, parsed, inbox, calls>>

\* The request for path k is answered or fails: check_path returns its
\* finding or None, and the semaphore is released.
LimitedCheckEnd(k) ==
    /\ path_scan.pc = "gather"
    /\ path_scan.at[k] = "get"
    /\ path_scan' = Release([path_scan EXCEPT !.at[k] = "done"])
    /\ UNCHANGED <<scan_state, ws_connections, task, ep, response, content,
                   hist, probe, gen, parsed, inbox, calls>>

\* gather returns when every task has ended, and check_exposed_paths returns
\* the findings among the results.
PathScanReturn ==
    /\ path_scan.pc = "gather"
    /\ \A k \in DOMAIN SENSITIVE_PATHS : path_scan.at[k] = "done"
    /\ path_scan' = [path_scan EXCEPT !.pc = "returned",
                                      !.findings = CheckExposedPaths(path_scan.responses)]
    /\ UNCHANGED <<scan_state, ws_connections, task, ep, response, content,
                   hist, probe, gen, parsed, inbox, calls>>

NextPaths ==
    \/ PathScanCall
    \/ \E k \in DOMAIN SENSITIVE_PATHS : LimitedCheckBegin(k)
    \/ \E k \in DOMAIN SENSITIVE_PATHS : LimitedCheckResume(k)
    \/ \E k \in DOMAIN SENSITIVE_PATHS : LimitedCheckEnd(k)
    \/ PathScanReturn

\* One call of check_exposed_paths.
SpecPaths == Init /\ [][NextPaths]_vars

\* request.ports with one valid port, two valid ports and none.
BatchPortLists == PortLists \cup { <<8080>> }

\* Runs one after another with one or two valid ports.
NextBatch ==
    \/ \E ports \in BatchPortLists : InTurn /\ StartScan(ports) /\ UNCHANGED inbox
    \/ \E text \in TargetTexts, ports \in BatchPortLists :
          InTurn /\ StartTargetScan(text, ports) /\ UNCHANGED inbox
    \/ StopScan /\ UNCHANGED inbox
    \/ \E w \in Workers : WorkerBegin(w)
    \/ \E w \in Workers : Join(w)
    \/ \E w \in Workers : SaveCommitted(w)
    \/ \E w \in Workers : SaveFailed(w)
    \/ \E w \in Workers : SaveReturned(w)
    \/ \E w \in Workers : Wake(w)

SpecBatch == Init /\ [][NextBatch]_vars

\* ------------------------------------------ a subscriber that never reads
\* send_text to websocket s returns or raises.
SendDoneTo(w, s) == task[w].sending = s /\ SendDone(w)

\* The websocket whose send_text never completes once it is awaited: the
\* first one that connects.
Stalled == CHOOSE s \in Sockets : \A r \in Sockets : s <= r

\* The event loop runs every task that is ready, the storage answers and
\* every send_text to another websocket completes; of a send_text to the
\* stalled websocket nothing is said.
FairButStalled ==
    \A w \in Workers :
        /\ WF_vars(WorkerBegin(w))
        /\ WF_vars(Join(w))
        /\ WF_vars(SaveCommitted(w))
        /\ WF_vars(SaveReturned(w))
        /\ WF_vars(Wake(w))
        /\ \A s \in Sockets \ {Stalled} : WF_vars(SendDoneTo(w, s))

\* One run with websockets, one of which may never take what is sent.
SpecStall == Init /\ [][NextWs]_vars /\ FairButStalled

\* ------------------------------------------- parse_target_ips with names
\* A token that starts with http:// or https://, with the hostname that
\* urlparse finds in it, and a token that matches the pattern of a domain
\* name, with its part before the colon.
Url(h) == [kind |-> "url", hostname |-> h]
Domain(h) == [kind |-> "domain", hostname |-> h]

\* A name with a label of 64 characters, which is 64 times "a" before
\* ".com": the pattern of a domain name puts no limit on a label.
LongLabel == "a{64}.com"

\* The names followed.
Hostnames == {"example.com", "example.org", LongLabel}

\* What socket.gethostbyname does with each name: it returns an address, or
\* raises socket.gaierror; for a label of more than 63 characters the
\* encoding of the name raises UnicodeError before any lookup.
Resolvers ==
    { dns \in [Hostnames -> {"address", "gaierror", "UnicodeError"}] :
         \A h \in Hostnames : (dns[h] = "UnicodeError") <=> (h = LongLabel) }

\* The address a name resolves to: 1572395042 is 93.184.216.34.
AddressOf == [h \in Hostnames |-> << [first |-> 1572395042, n |-> 1] >>]

\* _resolve_hostname: the value of the cache for a name that is in it;
\* otherwise gethostbyname is called, and its address, or None after
\* socket.gaierror, is put into the cache and returned.  Any other exception
\* leaves the function with the cache as it was.  ret is the list of the
\* address, empty for None; lookups are the calls of gethostbyname.
ResolveHostname(hostname, c, dns) ==
    IF hostname \in DOMAIN c.resolved_cache
    THEN [c EXCEPT !.ret = c.resolved_cache[hostname]]
    ELSE LET c1 == [c EXCEPT !.lookups = Append(@, hostname)]
         IN  CASE dns[hostname] = "address" ->
                    [c1 EXCEPT !.resolved_cache = (hostname :> AddressOf[hostname]) @@ @,
                               !.ret = AddressOf[hostname]]
               [] dns[hostname] = "gaierror" ->
                    [c1 EXCEPT !.resolved_cache = (hostname :> <<>>) @@ @,
                               !.ret = <<>>]
               [] OTHER -> [c1 EXCEPT !.raised = TRUE]

\* One turn of "for part in parts".  The URL branch passes over every
\* exception and goes on with the next token; the branch of a domain name
\* has no try, so that an exception leaves parse_target_ips.
ParsePart(tok, c, dns) ==
    CASE tok.kind = "url" ->
            LET r == ResolveHostname(tok.hostname, c, dns)
            IN  IF r.raised THEN [r EXCEPT !.raised = FALSE]
                ELSE [r EXCEPT !.ips = @ \o r.ret]
      [] tok.kind = "domain" ->
            LET r == ResolveHostname(tok.hostname, c, dns)
            IN  IF r.raised THEN r ELSE [r EXCEPT !.ips = @ \o r.ret]
      [] OTHER -> [c EXCEPT !.ips = @ \o TokenIps(tok)]

\* The loop of parse_target_ips from the first token of text on.
RECURSIVE ParseParts(_, _, _)
ParseParts(text, c, dns) ==
    IF text = <<>> \/ c.raised THEN c
    ELSE ParseParts(Tail(text), ParsePart(Head(text), c, dns), dns)

\* target_input: texts of one to three tokens, each a URL or a domain name of
\* one of the names, or the address 1.1.1.1.
ResolveTokens ==
    { Url(h) : h \in Hostnames } \cup { Domain(h) : h \in Hostnames }
    \cup { Ip(16843009) }
ResolveTexts ==
    { <<a>> : a \in ResolveTokens } \cup { <<a, b>> : a, b \in ResolveTokens }
    \cup { <<a, b, d>> : a, b, d \in ResolveTokens }

\* parse_target_ips(target_input) is called, with the resolver dns: it
\* returns ips or raises.
ResolveCall ==
    /\ parsed = NoParse
    /\ \E target_input \in ResolveTexts, dns \in Resolvers :
          LET r == ParseParts(target_input,
                              [ips |-> <<>>, resolved_cache |-> <<>>,
                               lookups |-> <<>>, ret |-> <<>>, raised |-> FALSE],
                              dns)
          IN  parsed' = [pc |-> IF r.raised THEN "raised" ELSE "returned",
                         target_input |-> target_input, dns |-> dns,
                         ips |-> r.ips, lookups |-> r.lookups]
    /\ UNCHANGED <<scan_state, ws_connections, task, ep, response, content,
                   hist, probe, gen, path_scan, inbox, calls>>

NextResolve == ResolveCall

\* Calls of parse_target_ips with URLs and domain names.
SpecResolve == Init /\ [][NextResolve]_vars

\* --------------------------------------------- start requests in a burst
\* The bodies of the start requests followed: a random start with the ports
\* 80, 443 and 22 and one with port 22 alone; a target start for 100.0.0.16/16
\* with port 8080 (65534 probes), one for it with the ports 80, 443 and 22
\* (131068 probes) and one for a text with no address.
StartRequests ==
    { [path |-> "start", targets |-> <<>>, ports |-> ports] : ports \in PortLists }
    \cup { [path |-> "target", targets |-> <<Cidr(1677721616, 16)>>, ports |-> ports] :
              ports \in BatchPortLists \ { <<22>> } }
    \cup { [path |-> "target", targets |-> <<Junk>>, ports |-> <<8080>>] }

\* The server receives the start request of client r while no scan is
\* running: the handler's task is made and has not run yet.
Receive(r) ==
    /\ inbox[r].at = "none"
    /\ ~scan_state.running
    /\ \E request \in StartRequests :
          inbox' = [inbox EXCEPT ![r] = [at |-> "received", request |-> request]]
    /\ UNCHANGED <<scan_state, ws_connections, task, ep, response, content, hist,
                   probe, gen, path_scan, parsed, calls>>

\* The handler of a start request: start_scan or start_target_scan.
Handler(request) ==
    IF request.path = "start" THEN StartScan(request.ports)
    ELSE StartTargetScan(request.targets, request.ports)

\* The handler of client r's request runs.  Neither start_scan nor
\* start_target_scan has an await, so that the handler runs from its first
\* line to its return in one segment, and the answer is sent.
Handle(r) ==
    /\ inbox[r].at = "received"
    /\ Handler(inbox[r].request)
    /\ inbox' = [inbox EXCEPT ![r] = [at |-> "answered", request |-> @.request,
                                      status_code |-> response']]

\* Start requests that arrive while idle, handled in any order, among the
\* steps of the worker.
NextStart ==
    \/ \E r \in Requests : Receive(r)
    \/ \E r \in Requests : Handle(r)
    \/ \E w \in Workers : WorkerBegin(w)
    \/ \E w \in Workers : Join(w)
    \/ \E w \in Workers : SaveCommitted(w)
    \/ \E w \in Workers : SaveReturned(w)
    \/ \E w \in Workers : Wake(w)

SpecStart == Init /\ [][NextStart]_vars

\* ---- scan_single_ip, call by call (SpecProbe) ----

\* The calls of a batch that are followed: the first two of tasks.  The
\* other calls of the batch fail at their GET.
Calls == 1..2

\* response.status of a GET that returned.
StatusCodes == {200, 404}

\* protocol of scan_single_ip.
Protocol(port) == IF port \in {443, 8443} THEN "https" ELSE "http"

\* The port of the k-th entry of tasks, the list of (ip, port) built with
\* the addresses in the outer loop and the ports in the inner one.
PortOf(t, k) == t.ports[((k - 1) % Len(t.ports)) + 1]

\* A call of scan_single_ip suspended at session.get, with the locals that
\* end in its result.  ssl_info stays at its initial value in every call:
\* get_ssl_info sets verify_mode to CERT_NONE, under which getpeercert()
\* returns an empty dict, so no field of ssl_info is ever assigned.
NewCall(port) ==
    [ at |-> "get", port |-> port, protocol |-> Protocol(port), status_code |-> 0,
      ssl_issuer |-> "None", hostname |-> "None", country |-> "None",
      vuln_invoked |-> FALSE, vulnerabilities |-> "None", vuln_count |-> 0,
      vuln_max_risk |-> "info", shot_invoked |-> FALSE,
      screenshot_path |-> "None", ret |-> "pending" ]

\* What run_vuln_scan returns: no finding, or the findings of a page served
\* over http that lists a directory.
Findings ==
    { <<>>,
      CheckSslIssues([expired |-> FALSE, self_signed |-> FALSE], "http")
          \o CheckDirectoryListing([listing |-> TRUE]) }

\* The outer except of scan_single_ip: the call returns None.
Unreachable(c) == [c EXCEPT !.at = "returned", !.ret = "None"]

\* A result assembled only when both lookups answered.
Assemble_OnlyComplete(c) ==
    IF c.hostname = "None" \/ c.country = "None" THEN Unreachable(c)
    ELSE [c EXCEPT !.at = "returned", !.ret = "dict"]

\* result is assembled from the locals and returned.
Assemble(c) == [c EXCEPT !.at = "returned", !.ret = "dict"]

\* The screenshot taken whatever the status.
ScreenshotDue_AnyStatus(take_screenshots, status) == take_screenshots

\* The condition of the screenshot.
ScreenshotDue(take_screenshots, status) == take_screenshots /\ status < 400

\* From the screenshot on: take_screenshot is awaited or the result returned.
Screenshot(c, cs) ==
    IF ScreenshotDue(cs.take_screenshots, c.status_code)
    THEN [c EXCEPT !.at = "shot", !.shot_invoked = TRUE]
    ELSE Assemble(c)

\* From the vulnerability check on: run_vuln_scan is awaited or passed over.
VulnCheck(c, cs) ==
    IF cs.run_vuln_check THEN [c EXCEPT !.at = "vuln", !.vuln_invoked = TRUE]
    ELSE Screenshot(c, cs)

\* Call k of the batch in flight is suspended at stage.
At(k, stage) == calls.pc = "gather" /\ calls.call[k].at = stage

\* Call k goes on to c; nothing else is written by a call.
SetCall(k, c) ==
    /\ calls' = [calls EXCEPT !.call[k] = c]
    /\ UNCHANGED <<scan_state, ws_connections, task, ep, response, content, hist,
                   probe, gen, path_scan, parsed, inbox>>

\* session.get returns a response or raises (refused, timed out).
GetDone(k) ==
    /\ At(k, "get")
    /\ \/ SetCall(k, Unreachable(calls.call[k]))
       \/ \E status \in StatusCodes :
             SetCall(k, [calls.call[k] EXCEPT !.at = "text", !.status_code = status])

\* response.text returns the body or raises, which leaves body empty; the
\* body is not followed.  get_ssl_info is awaited only for https.
TextDone(k) ==
    /\ At(k, "text")
    /\ SetCall(k, [calls.call[k] EXCEPT
                     !.at = IF calls.call[k].protocol = "https" THEN "ssl" ELSE "lookups"])

\* get_ssl_info returns, its connection closed or failed.
SslDone(k) ==
    /\ At(k, "ssl")
    /\ SetCall(k, [calls.call[k] EXCEPT !.at = "lookups"])

\* gather(hostname_task, country_task) returns: each lookup answered or
\* failed, a failure leaving None.
LookupsDone(k) ==
    /\ At(k, "lookups")
    /\ \E hostname \in {"name", "None"}, country \in {"country", "None"} :
          SetCall(k, VulnCheck([calls.call[k] EXCEPT !.hostname = hostname,
                                                     !.country = country], calls))

\* run_vuln_scan returns findings or raises.
VulnDone(k) ==
    /\ At(k, "vuln")
    /\ \/ SetCall(k, Screenshot(calls.call[k], calls))
       \/ \E findings \in Findings :
             SetCall(k, Screenshot(
                IF findings = <<>> THEN calls.call[k]
                ELSE [calls.call[k] EXCEPT
                        !.vulnerabilities = "json",
                        !.vuln_count = SummarizeVulns(findings).total,
                        !.vuln_max_risk = SummarizeVulns(findings).max_risk], calls))

\* take_screenshot returns the file name or None.
ScreenshotDone(k) ==
    /\ At(k, "shot")
    /\ \E path \in {"file", "None"} :
          SetCall(k, Assemble([calls.call[k] EXCEPT !.screenshot_path = path]))

\* One await of call k returns.
CallStep(k) ==
    \/ GetDone(k)
    \/ TextDone(k)
    \/ SslDone(k)
    \/ LookupsDone(k)
    \/ VulnDone(k)
    \/ ScreenshotDone(k)

\* The calls of the batch worker w has dispatched begin.  take_screenshots
\* and run_vuln_check are arguments of the run: they are drawn with its
\* first batch and kept.
ProbesBegin(w) ==
    /\ task[w].pc = "gather"
    /\ calls.pc # "gather"
    /\ calls.batch # task[w].batch
    /\ \E take_screenshots, run_vuln_check \in BOOLEAN :
          /\ calls.pc = "joined" => /\ take_screenshots = calls.take_screenshots
                                    /\ run_vuln_check = calls.run_vuln_check
          /\ calls' = [ pc |-> "gather", batch |-> task[w].batch,
                        take_screenshots |-> take_screenshots,
                        run_vuln_check |-> run_vuln_check,
                        call |-> [k \in Calls |-> NewCall(PortOf(task[w], k))] ]
    /\ UNCHANGED <<scan_state, ws_connections, task, ep, response, content, hist,
                   probe, gen, path_scan, parsed, inbox>>

\* A gather that returns only when every call has a result.
AllReturned_OnlyResults(cs) == \A k \in Calls : cs.call[k].ret = "dict"

\* Every call of the batch has returned.
AllReturned(cs) == \A k \in Calls : cs.call[k].at = "returned"

\* The entries of results that are not None.
Results(cs) == { k \in Calls : cs.call[k].ret = "dict" }

\* A result with a field left empty by a lookup or a screenshot that failed.
Degraded(c) ==
    /\ c.ret = "dict"
    /\ \/ c.hostname = "None"
       \/ c.country = "None"
       \/ c.shot_invoked /\ c.screenshot_path = "None"

\* gather returns the results of the calls to worker w, which goes through
\* them up to its next await.  degraded keeps the number of results with a
\* field left empty.
JoinProbes(w) ==
    /\ task[w].pc = "gather"
    /\ calls.pc = "gather"
    /\ calls.batch = task[w].batch
    /\ AllReturned(calls)
    /\ \E e \in Elapsed : Written(w, AfterGather(w, Results(calls), e))
    /\ calls' = [ pc |-> "joined", batch |-> calls.batch,
                  take_screenshots |-> calls.take_screenshots,
                  run_vuln_check |-> calls.run_vuln_check,
                  degraded |-> Cardinality({ k \in Calls : Degraded(calls.call[k]) }) ]
    /\ UNCHANGED <<ep, response, content, probe, gen, path_scan, parsed, inbox>>

\* One random run with its calls followed; storage works.
NextProbe ==
    \/ \E ports \in PortLists : FirstRun /\ StartScan(ports) /\ UNCHANGED inbox
    \/ StopScan /\ UNCHANGED inbox
    \/ \E w \in Workers : WorkerBegin(w)
    \/ \E w \in Workers : ProbesBegin(w)
    \/ \E k \in Calls : CallStep(k)
    \/ \E w \in Workers : JoinProbes(w)
    \/ \E w \in Workers : SaveCommitted(w)
    \/ \E w \in Workers : SaveReturned(w)
    \/ \E w \in Workers : Wake(w)

SpecProbe == Init /\ [][NextProbe]_vars

\* The first batch of a random run, call by call, up to the worker's sleep.
NextJoin ==
    \/ \E ports \in PortLists : FirstRun /\ StartScan(ports) /\ UNCHANGED inbox
    \/ StopScan /\ UNCHANGED inbox
    \/ \E w \in Workers : WorkerBegin(w)
    \/ \E w \in Workers : ProbesBegin(w)
    \/ \E k \in Calls : CallStep(k)
    \/ \E w \in Workers : JoinProbes(w)
    \/ \E w \in Workers : SaveCommitted(w)
    \/ \E w \in Workers : SaveReturned(w)

\* Every network call of a probe completes or times out, and the event loop
\* runs a task that is ready: the calls of a batch begin, each await of a
\* call returns, and gather returns once every call has.
ProbeFairness ==
    /\ WF_vars(\E w \in Workers : ProbesBegin(w))
    /\ \A k \in Calls : WF_vars(CallStep(k))
    /\ WF_vars(\E w \in Workers : JoinProbes(w))

SpecJoin == Init /\ [][NextJoin]_vars /\ ProbeFairness

\* ------------------------------------------------------------------ claims
\* A worker that has dispatched a batch and has not left its run loop.
Live(w) ==
    \/ task[w].pc \in {"gather", "saving", "saved", "sleep"}
    \/ task[w].pc = "notify" /\ task[w].ret # "final"

\* The worker of the last accepted start.
Latest(w) == task[w].pc # "none" /\ \A v \in Workers : v > w => task[v].pc = "none"

\* C1: in every reachable state at most one scan worker is live, whatever
\* the interleaving of start, stop and worker steps.
C1_AtMostOneLiveWorker == Cardinality({ w \in Workers : Live(w) }) <= 1

\* C2: a start request (random or target) received while running is true is
\* answered with an error, creates no worker task and leaves every field of
\* scan_state unchanged.
C2_StartWhileRunningRejected ==
    [][ \A ports \in PortLists, text \in TargetTexts :
            (scan_state.running /\ (StartScan(ports) \/ StartTargetScan(text, ports)))
            => (response' = 400 /\ scan_state' = scan_state /\ task' = task) ]_vars

\* A start request has been refused in the middle of a run that has already
\* scanned a batch.
C2_Witness ==
    scan_state.running /\ response = 400 /\ scan_state.total_scanned > 0

C4_RunningWhileInFlight ==
    \A w \in Workers : task[w].pc = "gather" => scan_state.running

\* C5: a run that has ended has a worker that leaves the run loop and
\* publishes the final status event: no run that was stopped has a worker
\* whose task is over without that event.
C5_EndedRunPublishesFinal ==
    \A w \in Workers : (Latest(w) /\ hist.stopped) => task[w].pc # "dead"

\* C6: a target run over N addresses and P ports that is never stopped
\* leaves its loop with running false, after exactly N*P probes, with
\* target_done = target_total = total_scanned = N*P.
C6_TargetRunExhausts ==
    [][ \A w \in Workers :
          ( /\ IsTarget(task[w])
            /\ Latest(w)
            /\ ~hist.stopped
            /\ task[w].pc \in {"start", "sleep"}
            /\ task'[w].pc \in {"done", "notify"} )
          => /\ ~scan_state'.running
             /\ scan_state'.target_done = AllTasksLen(task[w])
             /\ scan_state'.target_total = AllTasksLen(task[w])
             /\ scan_state'.total_scanned = AllTasksLen(task[w]) ]_vars

\* C7: target_done <= target_total in every reachable state.
C7_TargetDoneWithinTotal ==
    scan_state.target_done <= scan_state.target_total

\* C8: while a random-mode run is running, running becomes false only by an
\* accepted stop request, never by a step of a worker.
C8_RandomRunLeftOnlyByStop ==
    [][ (scan_state.running /\ scan_state.mode = "random" /\ ~scan_state'.running)
        => StopScan ]_vars

\* C9: at every batch boundary total_found equals the number of results
\* persisted and the number of result events published since the accepted
\* start of the run.
C9_FoundMatchesPersistedAndPublished ==
    (\E w \in Workers : task[w].pc = "sleep")
    => /\ scan_state.total_found = hist.persisted
       /\ scan_state.total_found = hist.published

\* A notify_ws call of worker w ends in this step, and it returns.
NotifyReturns(w) ==
    /\ task[w].pc = "notify"
    /\ task'[w].pc # "dead"
    /\ task'[w].pc # "notify" \/ task'[w].ret # task[w].ret

\* C10: notify_ws attempts delivery to every websocket that is in
\* ws_connections during the whole call; when it returns, no websocket whose
\* delivery failed is still in ws_connections, and it has removed none whose
\* delivery succeeded.
C10_NotifyReachesEverySubscriber ==
    [][ \A w \in Workers :
          NotifyReturns(w)
          => /\ task[w].present \subseteq task[w].attempted
             /\ Range(task[w].disconnected) \cap Range(ws_connections') = {}
             /\ (Range(ws_connections) \ Range(ws_connections'))
                    \subseteq (Range(task[w].disconnected) \cup {task[w].sending})
      ]_vars

\* This step is an accepted start that creates worker task w.
Accepted(w) == task[w].pc = "none" /\ task'[w].pc = "start"

\* This step answers a request with status 400 and changes neither scan_state
\* nor the tasks.
Refused == response' = 400 /\ scan_state' = scan_state /\ task' = task

\* C11: immediately after an accepted start of either mode, running is true,
\* mode is the requested mode, start_time is recorded, and total_scanned,
\* total_found, current_rate and target_done are 0, whatever the run before
\* has left.
C11_AcceptedStartResets ==
    [][ \A w \in Workers :
          Accepted(w)
          => /\ scan_state'.running
             /\ scan_state'.start_time = Recorded
             /\ scan_state'.total_scanned = 0
             /\ scan_state'.total_found = 0
             /\ scan_state'.current_rate = 0
             /\ scan_state'.target_done = 0
             /\ \A ports \in PortLists :
                   StartScan(ports) => scan_state'.mode = "random"
             /\ \A text \in TargetTexts \cup LimitTexts, ports \in PortLists :
                   StartTargetScan(text, ports) => scan_state'.mode = "target"
      ]_vars

\* A second run has just been accepted after a first run that scanned a batch
\* and ended: the counters are 0 again.
C11_Witness ==
    /\ task[1].pc = "done"
    /\ task[2].pc = "start"
    /\ hist.batches > 0
    /\ scan_state.running
    /\ scan_state.total_scanned = 0

\* C12: a stop request received while running is false is answered with an
\* error and leaves every field of scan_state unchanged.
C12_StopWhileIdleRejected ==
    [][ (~scan_state.running /\ StopScan)
        => (Refused /\ content' = NotRunning) ]_vars

\* A stop request has been refused after a run that has scanned a batch.
C12_Witness ==
    /\ content = NotRunning
    /\ ~scan_state.running
    /\ scan_state.total_scanned > 0

\* C13 as stated: a start request whose port list holds a port outside
\* {80, 443, 8080, 8443} is refused, with no worker and no state change.
C13_AnyInvalidPortRejected ==
    [][ \A ports \in PortLists, text \in TargetTexts :
          ( /\ \E k \in 1..Len(ports) : ports[k] \notin ValidPorts
            /\ StartScan(ports) \/ StartTargetScan(text, ports) )
          => Refused ]_vars

\* C13 as amended: a start request is refused, with no worker and no state
\* change, when its port list holds no port of {80, 443, 8080, 8443}; the
\* ports outside that set are dropped from the list, and an accepted start
\* gives its worker the valid ports only.  (Every step satisfies this or is
\* no start request with these ports.)
C13_NoValidPortRejected ==
    [][ \A ports \in PortLists, text \in TargetTexts \cup LimitTexts :
          \/ /\ (Range(ports) \cap ValidPorts = {}) => Refused
             /\ \A w \in Workers :
                   Accepted(w)
                   => /\ task'[w].ports # <<>>
                      /\ Range(task'[w].ports) = Range(ports) \cap ValidPorts
          \/ ~(StartScan(ports) \/ StartTargetScan(text, ports))
      ]_vars

\* A start with the ports 80, 443 and 22 has been accepted: its worker has
\* the ports 80 and 443.
C13_Witness ==
    /\ content = "started"
    /\ \E w \in Workers : task[w].pc = "start" /\ task[w].ports = <<80, 443>>

\* The number of addresses each text resolves to.
AddressCount ==
    [text \in TargetTexts \cup LimitTexts |-> ListLen(ParseTargetIps(text))]

\* The number of probes a start-target request asks for.
TotalTargets(text, ports) ==
    AddressCount[text] * Cardinality({ k \in 1..Len(ports) : ports[k] \in ValidPorts })

\* C14: a start-target request is refused, with no worker and no state
\* change, when its text resolves to no address or addresses x valid ports
\* exceeds 100000; it is accepted only when the product is between 1 and
\* 100000, and a request received while idle with such a product is not
\* refused.  (Every step satisfies this or is no start-target request with
\* this text and these ports.)
C14_TargetLimit ==
    [][ \A text \in TargetTexts \cup LimitTexts, ports \in PortLists :
          \/ /\ (AddressCount[text] = 0 \/ TotalTargets(text, ports) > MaxTargets)
                => Refused
             /\ (\E w \in Workers : Accepted(w))
                => TotalTargets(text, ports) \in 1..MaxTargets
             /\ (~scan_state.running /\ TotalTargets(text, ports) \in 1..MaxTargets)
                => \E w \in Workers : Accepted(w)
          \/ ~StartTargetScan(text, ports)
      ]_vars

\* A target run of exactly 100000 probes has been accepted.
C14_Witness ==
    \E w \in Workers :
        /\ task[w].pc = "start"
        /\ IsTarget(task[w])
        /\ AllTasksLen(task[w]) = MaxTargets

\* C15: when save_result fails while a worker is processing a result, the
\* failure is surfaced to the caller: the step in which the exception leaves
\* the worker changes something the control surface shows (scan_state) or,
\* when a subscriber is connected, sends an event to the subscribers.
C15_StorageFailureSurfaced ==
    [][ \A w \in Workers :
          (task[w].pc = "saving" /\ task'[w].pc = "dead")
          => \/ scan_state' # scan_state
             \/ task'[w].attempted # {}
             \/ ws_connections = <<>> ]_vars

\* C16: a probe that fails at network level returns no result and is not
\* retried.  When a worker is through with a batch of a run that is still
\* running, total_found, the rows persisted and the result events published
\* all equal the number of probes that returned a result, total_scanned
\* equals the number of probes of the batches joined, failed ones included,
\* every result of the batch has been visited; and a worker at the end of a
\* batch goes on to the next batch while the run is running.
C16_FailedProbeOnlyScanned ==
    [][ \A w \in Workers :
          /\ (task[w].pc # "sleep" /\ task'[w].pc = "sleep" /\ scan_state'.running)
             => /\ task'[w].cursor = task'[w].ntasks
                /\ scan_state'.total_found = hist'.hits
                /\ hist'.persisted = hist'.hits
                /\ hist'.published = hist'.hits
                /\ scan_state'.total_scanned = hist'.probes
          /\ (task[w].pc = "sleep" /\ task'[w].pc # "sleep" /\ StaysInLoop(Cfg(w)))
             => task'[w].pc = "gather" ]_vars

\* A worker is through with a batch in which the first probe failed and the
\* second returned a result, and the run is still running: one result found
\* and persisted, every probe scanned.
C16_Witness ==
    \E w \in Workers :
        /\ task[w].pc = "sleep"
        /\ task[w].hits = {2}
        /\ scan_state.running
        /\ scan_state.total_found = 1
        /\ hist.persisted = 1
        /\ scan_state.total_scanned = task[w].ntasks

\* The findings of one check of run_vuln_scan for the inputs of probe p.
CheckFindings(p, check) ==
    CASE check = "headers" -> CheckSecurityHeaders(p.headers)
      [] check = "listing" -> CheckDirectoryListing(p.body)
      [] check = "tech" -> CheckTechFingerprint(p.body)
      [] check = "ssl" -> CheckSslIssues(p.tls.ssl_info, p.tls.protocol)
      [] OTHER -> CheckExposedPaths(p.responses)

\* The findings of the checks that do not raise, in the order of the checks.
RECURSIVE FindingsOfOthers(_, _)
FindingsOfOthers(p, k) ==
    IF k > Len(Checks) THEN <<>>
    ELSE (IF Checks[k] = p.raises THEN <<>> ELSE CheckFindings(p, Checks[k]))
         \o FindingsOfOthers(p, k + 1)

\* A call with the vulnerability check has ended.
Checked == probe.pc = "done" /\ probe.run_vuln_check

\* C17: each of the five checks of run_vuln_scan is failure-isolated: when
\* one check raises, run_vuln_scan still returns, and what it returns are
\* the findings of the other four checks.
C17_ChecksFailureIsolated ==
    (Checked /\ probe.raises # "none")
    => (~probe.raised /\ probe.findings = FindingsOfOthers(probe, 1))

\* The place of a risk in the order critical > high > medium > low > info.
Rank(risk) == CHOOSE k \in DOMAIN RiskLevels : RiskLevels[k] = risk

\* C18: for a list of findings with risks among the five levels,
\* summarize_vulns returns total = the number of findings and max_risk = the
\* highest risk present, or info for the empty list; and the probe's
\* vuln_count and vuln_max_risk are these values for its findings.
C18_SummaryIsCountAndHighestRisk ==
    Checked
    => LET f == probe.findings
           s == SummarizeVulns(f)
       IN  /\ s.total = Len(f)
           /\ IF f = <<>> THEN s.max_risk = "info"
              ELSE /\ \E k \in DOMAIN f : f[k].risk = s.max_risk
                   /\ \A k \in DOMAIN f : Rank(f[k].risk) >= Rank(s.max_risk)
           /\ probe.vuln_count = s.total
           /\ probe.vuln_max_risk = s.max_risk

\* A probe has ended with findings of the risks low, medium and high and
\* none of risk critical: its vuln_max_risk is high.
C18_Witness ==
    /\ Checked
    /\ probe.vuln_max_risk = "high"
    /\ probe.vuln_count > 2
    /\ \E k \in DOMAIN probe.findings : probe.findings[k].risk = "low"
    /\ \E k \in DOMAIN probe.findings : probe.findings[k].risk = "medium"

\* The exposed_path findings for one path among the findings f.
PathFindings(f, path) ==
    { j \in DOMAIN f : f[j].type = "exposed_path" /\ f[j].path = path }

\* C19: for each path of the catalog the exposed-path check gives exactly
\* one exposed_path finding at the risk of the catalog when the answer is
\* 200 with a non-empty body, exactly one at risk low when the answer is
\* 403, and none for any other status, an empty body or a failed request.
C19_ExposedPathFindings ==
    (Checked /\ probe.raises = "none")
    => \A k \in DOMAIN SENSITIVE_PATHS :
          LET resp == probe.responses[k]
              f == probe.findings
              pf == PathFindings(f, SENSITIVE_PATHS[k].path)
          IN  IF ~resp.error /\ resp.status = 200 /\ resp.body_len > 0
              THEN /\ Cardinality(pf) = 1
                   /\ \A j \in pf : f[j].risk = SENSITIVE_PATHS[k].risk /\ f[j].status = 200
              ELSE IF ~resp.error /\ resp.status = 403
              THEN /\ Cardinality(pf) = 1
                   /\ \A j \in pf : f[j].risk = "low" /\ f[j].status = 403
              ELSE pf = {}

\* /.env, of risk critical in the catalog, has answered 403, and the probe
\* has a finding of risk low for it.
C19_Witness ==
    /\ Checked
    /\ \E j \in DOMAIN probe.findings :
          /\ probe.findings[j].type = "exposed_path"
          /\ probe.findings[j].path = "/.env"
          /\ probe.findings[j].status = 403
          /\ probe.findings[j].risk = "low"

\* The missing_header findings among the findings f.
MissingFindings(f) == { j \in DOMAIN f : f[j].type = "missing_header" }

\* C20: check_security_headers gives exactly one missing_header finding for
\* each of the 7 tracked headers that no key of the response's headers
\* equals when case is ignored, and none for a header that is present; a
\* response with none of the 7 gives 7 findings, of maximum risk medium.
C20_MissingHeaderFindings ==
    (Checked /\ ~probe.raised)
    => LET f == probe.findings
           Present(info) == \E h \in probe.headers : Lower(h) = Lower(info.header)
           absent == { k \in DOMAIN SECURITY_HEADERS : ~Present(SECURITY_HEADERS[k]) }
       IN  /\ Len(SECURITY_HEADERS) = 7
           /\ \A k \in DOMAIN SECURITY_HEADERS :
                 Cardinality({ j \in MissingFindings(f) :
                                  /\ f[j].name = SECURITY_HEADERS[k].name
                                  /\ f[j].risk = SECURITY_HEADERS[k].risk })
                 = IF k \in absent THEN 1 ELSE 0
           /\ Cardinality(MissingFindings(f)) = Cardinality(absent)
           /\ (Cardinality(absent) = 7)
              => /\ \E j \in MissingFindings(f) : f[j].risk = "medium"
                 /\ \A j \in MissingFindings(f) : Rank(f[j].risk) >= Rank("medium")

\* The response has X-FRAME-OPTIONS in capitals and HSTS in small letters
\* among three tracked headers: the probe has four missing_header findings.
C20_Witness ==
    /\ Checked
    /\ ~probe.raised
    /\ Upper(SECURITY_HEADERS[2].header) \in probe.headers
    /\ SECURITY_HEADERS[2].header \notin probe.headers
    /\ Cardinality(MissingFindings(probe.findings)) = 4

\* The addresses from the first to the last of a network written as its
\* dotted text and its prefix length.
Covers(network, o) ==
    LET first == FromOctets(network.net)
        addr == FromOctets(o)
    IN  Leq(first, addr) /\ Leq(addr, LastOf(network))

\* C21: every address generate_random_ip returns lies in none of the
\* excluded networks, for every number the draw can produce; the list holds
\* 15 networks and the broadcast address, which lies in the last of them.
C21_GeneratedIpNotExcluded ==
    gen.pc = "returned"
    => /\ InDraw(gen.random_int)
       /\ FromOctets(gen.ip) = gen.random_int
       /\ \A k \in DOMAIN gen.ip : gen.ip[k] \in 0..(Octet - 1)
       /\ \A k \in DOMAIN EXCLUDED_NETWORKS : ~Covers(EXCLUDED_NETWORKS[k], gen.ip)
       /\ Len(EXCLUDED_NETWORKS) = 16
       /\ Covers(EXCLUDED_NETWORKS[15], EXCLUDED_NETWORKS[16].net)

\* 100.63.255.255, the address before 100.64.0.0/10, has been returned after
\* a draw that was refused.
C21_Witness ==
    /\ gen.pc = "returned"
    /\ gen.retried
    /\ gen.ip = <<100, 63, 255, 255>>

\* The number of tokens among the first k of a text that are an address or a
\* CIDR block of prefix length 16 or more.
Pos(text, k) ==
    Cardinality({ j \in 1..k :
                    \/ text[j].kind = "ip"
                    \/ text[j].kind = "cidr" /\ text[j].prefix >= 16 })

\* The first address of the block of a CIDR token.
NetworkOf(tok) == (tok.addr \div (2 ^ (32 - tok.prefix))) * (2 ^ (32 - tok.prefix))

\* The block of a CIDR token without its network and broadcast address.
InnerHosts(tok) ==
    [first |-> NetworkOf(tok) + 1, n |-> 2 ^ (32 - tok.prefix) - 2]

\* C22 as stated: a CIDR token of prefix length below 16 contributes no
\* address, and one of prefix length 16 or more contributes the addresses of
\* its block without the network and the broadcast address.
C22_CidrHostsWithoutEnds ==
    parsed.pc = "returned"
    => LET text == parsed.target_input
       IN  /\ Len(parsed.ips) = Pos(text, Len(text))
           /\ \A k \in DOMAIN text :
                 (text[k].kind = "cidr" /\ text[k].prefix >= 16)
                 => parsed.ips[Pos(text, k)] = InnerHosts(text[k])

\* C22 as amended: a CIDR token of prefix length below 16 contributes no
\* address; one of prefix length 16 to 30 contributes the addresses of its
\* block without the network and the broadcast address (254 for a /24); a
\* /31 contributes both addresses of its block and a /32 its one address.
C22_CidrHosts ==
    parsed.pc = "returned"
    => LET text == parsed.target_input
       IN  /\ Len(parsed.ips) = Pos(text, Len(text))
           /\ \A k \in DOMAIN text :
                 (text[k].kind = "cidr" /\ text[k].prefix >= 16)
                 => parsed.ips[Pos(text, k)] =
                       IF text[k].prefix <= 30 THEN InnerHosts(text[k])
                       ELSE [first |-> NetworkOf(text[k]),
                             n |-> 2 ^ (32 - text[k].prefix)]
           /\ (text = <<Cidr(1677721623, 24)>>) => ListLen(parsed.ips) = 254

\* 10.0.0.0/8 followed by 100.0.0.23/24 has been parsed: the list holds the
\* 254 addresses from 100.0.0.1 on and nothing else.
C22_Witness ==
    /\ parsed.pc = "returned"
    /\ parsed.target_input = <<Cidr(167772160, 8), Cidr(1677721623, 24)>>
    /\ parsed.ips = << [first |-> 1677721601, n |-> 254] >>

\* C23: parse_target_ips collapses no duplicates: its list holds one entry
\* for each occurrence of an address token, in the order of the tokens, so
\* that 1.1.1.1,1.1.1.1 gives two entries; and the probes of a target run
\* are the entries of the list times the ports, a repeated address being
\* probed once for each occurrence and port.
C23_DuplicatesKept ==
    parsed.pc = "returned"
    => LET text == parsed.target_input
           literals == { k \in DOMAIN text : text[k].kind = "ip" }
       IN  /\ \A k \in literals :
                 /\ Pos(text, k) <= Len(parsed.ips)
                 /\ parsed.ips[Pos(text, k)] = [first |-> text[k].addr, n |-> 1]
           /\ ListLen(parsed.ips) >= Cardinality(literals)
           /\ (\A k \in DOMAIN text : text[k].kind # "cidr")
              => /\ Len(parsed.ips) = Cardinality(literals)
                 /\ ListLen(parsed.ips) = Cardinality(literals)
           /\ \A ports \in PortLists :
                 AllTasksLen([target_ips |-> parsed.ips, ports |-> FilterPorts(ports)])
                 = ListLen(parsed.ips) * Len(FilterPorts(ports))

\* 1.1.1.1,1.1.1.1 has been parsed: the list holds 1.1.1.1 twice.
C23_Witness ==
    /\ parsed.pc = "returned"
    /\ parsed.target_input = <<Ip(16843009), Ip(16843009)>>
    /\ parsed.ips = << [first |-> 16843009, n |-> 1], [first |-> 16843009, n |-> 1] >>

\* The batch of worker w ends in this step, e seconds after rate_start: the
\* worker comes to the end of the loop body.
BatchEnds(w, e) ==
    /\ task[w].pc \in {"gather", "saved"}
    /\ task'[w].pc = "sleep"
    /\ (\E hits \in HitPatterns : JoinAt(w, hits, e)) \/ SaveReturnedAt(w, e)

\* round(rc / e) is a whole number nearest to rc / e, the even one of two.
RoundIsNearest ==
    \A rc \in 0..240, e \in 1..4 :
        LET r == Round(rc, e)
        IN  /\ r >= 0
            /\ 2 * r * e - 2 * rc \in (0 - e)..e
            /\ (2 * r * e - 2 * rc \in {0 - e, e}) => r % 2 = 0

\* C24: whenever a batch ends and at least one second has passed since the
\* last recomputation, current_rate becomes the rounded quotient of the
\* probes completed since then and the seconds passed, and the count restarts
\* at zero, so that 100 probes in 2 seconds give 50; before a second has
\* passed the rate is kept and the count goes on; current_rate is never
\* negative.
C24_RateRecomputed ==
    [][ /\ scan_state'.current_rate >= 0
        /\ RoundIsNearest
        /\ \A w \in Workers, e \in Elapsed :
              \/ LET rc == task[w].rate_counter + task[w].ntasks
                     r == scan_state'.current_rate
                 IN  IF e >= 1
                     THEN /\ 2 * r * e - 2 * rc \in (0 - e)..e
                          /\ task'[w].rate_counter = 0
                          /\ (rc = 100 /\ e = 2) => r = 50
                     ELSE /\ r = scan_state.current_rate
                          /\ task'[w].rate_counter = rc
              \/ ~BatchEnds(w, e)
      ]_vars

\* A batch of 100 probes has ended 2 seconds after the start of the window:
\* current_rate is 50 and the count is 0 again.
C24_Witness ==
    \E w \in Workers :
        /\ task[w].pc = "sleep"
        /\ task[w].ntasks = 100
        /\ task[w].rate_counter = 0
        /\ scan_state.current_rate = 50
        /\ scan_state.total_scanned = 100

\* The paths whose request is in flight.
InFlight == { k \in DOMAIN SENSITIVE_PATHS : path_scan.at[k] = "get" }

\* C25: within one call of check_exposed_paths at most 5 requests are in
\* flight at any moment, no path is requested twice, and when the call
\* returns every path has been requested once and its request has ended.
C25_AtMostFiveInFlight ==
    path_scan.pc # "none"
    => /\ Cardinality(InFlight) <= 5
       /\ \A k \in DOMAIN SENSITIVE_PATHS :
             /\ path_scan.requests[k] <= 1
             /\ path_scan.at[k] \in {"get", "done"} => path_scan.requests[k] = 1
       /\ path_scan.pc = "returned"
          => \A k \in DOMAIN SENSITIVE_PATHS :
                path_scan.at[k] = "done" /\ path_scan.requests[k] = 1

\* Five requests are in flight while the last path of the catalog waits for
\* the semaphore and the first path has been answered.
C25_Witness ==
    /\ path_scan.pc = "gather"
    /\ Cardinality(InFlight) = 5
    /\ path_scan.at[1] = "done"
    /\ path_scan.at[Len(SENSITIVE_PATHS)] = "waiting"

\* C26: between two accepted starts total_scanned never decreases; when a
\* worker is through with a batch total_scanned has grown by the probes of
\* that batch; and at every batch boundary of the run of the last accepted
\* start total_scanned is the number of probes that run has dispatched.
C26_ScannedCountsOwnProbes ==
    [][ /\ (\A w \in Workers : ~Accepted(w))
           => scan_state'.total_scanned >= scan_state.total_scanned
        /\ \A w \in Workers :
              /\ (task[w].pc \in {"gather", "saved"} /\ task'[w].pc = "sleep")
                 => scan_state'.total_scanned = scan_state.total_scanned + task[w].ntasks
              /\ ( /\ task[w].pc # "sleep"
                   /\ task'[w].pc = "sleep"
                   /\ \A v \in Workers : v > w => task'[v].pc = "none" )
                 => scan_state'.total_scanned = task'[w].sent
      ]_vars

\* Worker w dispatches a batch in this step.
Dispatches(w) == task[w].pc # "gather" /\ task'[w].pc = "gather"

\* The probes of a batch of scan_target_worker: 20, or what is left of the
\* run in its last batch.
TargetBatch(w) ==
    LET total == ListLen(task'[w].target_ips) * Len(task'[w].ports)
    IN  /\ task'[w].ntasks \in 1..20
        /\ task[w].sent + task'[w].ntasks <= total
        /\ task'[w].ntasks < 20 => task[w].sent + task'[w].ntasks = total

\* C27 as stated: every batch of a random run dispatches exactly 50 probes
\* whatever the number of ports, and every batch of a target run exactly 20
\* except for a shorter last one.
C27_FiftyProbesPerBatch ==
    [][ \A w \in Workers :
          Dispatches(w)
          => IF task'[w].kind = "target" THEN TargetBatch(w)
             ELSE task'[w].ntasks = 50 ]_vars

\* C27 as amended: every batch of a random run dispatches 50 addresses, each
\* on every selected port, that is 50 x P probes; every batch of a target
\* run dispatches exactly 20 probes except for a shorter last one.
C27_BatchSizes ==
    [][ \A w \in Workers :
          Dispatches(w)
          => IF task'[w].kind = "target" THEN TargetBatch(w)
             ELSE /\ task'[w].ntasks = 50 * Len(task'[w].ports)
                  /\ Len(task'[w].ports) \in 1..2 ]_vars

\* A random run with the ports 80 and 443 has dispatched its second batch of
\* 100 probes.
C27_Witness ==
    \E w \in Workers :
        /\ task[w].pc = "gather"
        /\ task[w].kind = "random"
        /\ task[w].ports = <<80, 443>>
        /\ task[w].ntasks = 100
        /\ task[w].sent = 200

\* Worker w publishes a result event of its batch in this step.
PublishesResult(w) == task[w].pc = "saved" /\ task'[w].pc # "saved"

\* Worker w publishes the status event of its batch in this step, with no
\* websocket connected.
PublishesStatus(w) ==
    /\ task[w].pc \in {"gather", "saved"}
    /\ task'[w].pc = "sleep"
    /\ task[w].kind = "target" \/ task'[w].rate_counter = 0

\* C28: published events follow the order in which the batches were
\* dispatched: when a result event or the status event of a batch k that was
\* dispatched after the last accepted start is published, no result event of
\* a batch dispatched later than k has been published.
C28_EventsInBatchOrder ==
    [][ \A w \in Workers :
          ( /\ PublishesResult(w) \/ PublishesStatus(w)
            /\ task[w].batch > hist.first )
          => hist.last <= task[w].batch ]_vars

\* Worker w starts to publish a status event in this step.
StatusPublished(w) ==
    /\ task'[w].pc = "notify"
    /\ task'[w].ret \in {"status", "final"}
    /\ task[w].pc # "notify" \/ task[w].ret # task'[w].ret

\* C29: every status event, the final one of a run included, is a snapshot
\* of scan_state: each field it carries has the value a status query would
\* read at the moment the event is published, and in target mode it carries
\* target_total and target_done.
C29_StatusEventIsSnapshot ==
    [][ \A w \in Workers :
          StatusPublished(w)
          => LET data == task'[w].msg
             IN  /\ {"running", "total_scanned", "total_found", "current_rate", "mode"}
                       \subseteq DOMAIN data
                 /\ task'[w].kind = "target"
                    => {"target_total", "target_done"} \subseteq DOMAIN data
                 /\ \A field \in DOMAIN data : data[field] = scan_state'[field]
      ]_vars

\* The counters of scan_state.
Counters(st) == <<st.total_scanned, st.total_found, st.target_done, st.current_rate>>

\* C30: the counters of scan_state (total_scanned, total_found, target_done,
\* current_rate) are written only by the worker of the run of the last
\* accepted start, in a step after its batch has joined; no request handler
\* and no other task changes them while a batch is in flight: a step that
\* changes them is such a step of that worker, or an accepted start that
\* resets them while no batch is in flight.
C30_CountersWrittenByOwnWorker ==
    [][ Counters(scan_state') # Counters(scan_state)
        => \/ /\ \E w \in Workers : Accepted(w)
              /\ \A v \in Workers : task[v].pc # "gather"
           \/ \E w \in Workers :
                 /\ Latest(w)
                 /\ task'[w] # task[w]
                 /\ task[w].pc \in {"start", "gather", "saved", "notify"}
      ]_vars

\* C35: notify_ws never raises to the worker: a notify_ws call of a worker
\* never ends the worker's task, also when a websocket whose delivery failed
\* is removed from ws_connections by its endpoint during the call.
C35_NotifyNeverRaises ==
    [][ \A w \in Workers : task[w].pc = "notify" => task'[w].pc # "dead" ]_vars

\* A worker task that has been created and has not ended.
Alive(w) == task[w].pc \notin {"none", "done", "dead"}

\* C36: whenever scan_state.running is true there is a worker task that has
\* not ended: no failure inside a worker ends it and leaves running true.
C36_RunningHasWorker ==
    scan_state.running => \E w \in Workers : Alive(w)

\* C37: total_found <= total_scanned in every state a status query can
\* observe, the awaits inside the result loop of a batch included.
C37_FoundWithinScanned ==
    scan_state.total_found <= scan_state.total_scanned

\* C39: a subscriber whose send_text never completes cannot stall the scan:
\* every notify_ws call of a worker returns, so that the worker goes on to
\* its next batch and to its next check of running.
C39_PublishAlwaysReturns ==
    \A w \in Workers :
        (task[w].pc = "notify" /\ task[w].sending = Stalled)
        ~> ~(task[w].pc = "notify" /\ task[w].sending = Stalled)

\* The calls of gethostbyname for the name h in the call followed.
LookupsOf(h) == { k \in DOMAIN parsed.lookups : parsed.lookups[k] = h }

\* C33: within one parse_target_ips call the resolver is invoked at most
\* once for each distinct hostname, whether the name resolved or failed.
C33_OneLookupPerHostname ==
    parsed.pc \in {"returned", "raised"}
    => \A h \in Hostnames : Cardinality(LookupsOf(h)) <= 1

\* The requests of the burst that were accepted, and those that have been
\* handled and ask for a scan that can start.
AcceptedRequests ==
    { r \in Requests : inbox[r].at = "answered" /\ inbox[r].status_code = 200 }
StartableRequests ==
    { r \in Requests :
        /\ inbox[r].at = "answered"
        /\ Range(inbox[r].request.ports) \cap ValidPorts # {}
        /\ inbox[r].request.path = "target"
           => LET n == ListLen(ParseTargetIps(inbox[r].request.targets))
                       * Cardinality(Range(inbox[r].request.ports) \cap ValidPorts)
              IN  n \in 1..MaxTargets }

\* C38: start acceptance is atomic: of the start requests (random or target)
\* that arrive while no scan is running, however many and in whatever order
\* their handlers run, exactly one is accepted and creates a worker: at most
\* one is answered 200, one worker task exists for each accepted request, and
\* once a request that can start has been handled one has been accepted.
C38_OneStartAccepted ==
    /\ Cardinality(AcceptedRequests) <= 1
    /\ Cardinality({ w \in Workers : task[w].pc # "none" }) = Cardinality(AcceptedRequests)
    /\ StartableRequests # {} => Cardinality(AcceptedRequests) = 1
    /\ AcceptedRequests \subseteq StartableRequests

\* Three requests arrived while idle: the first handled asked for too many
\* targets and was refused, the second was accepted, and the third, a random
\* start with valid ports, was refused while the worker was at its first batch.
C38_Witness ==
    /\ inbox["a"].at = "answered" /\ inbox["a"].status_code = 400
    /\ inbox["a"].request.targets = <<Cidr(1677721616, 16)>>
    /\ Len(inbox["a"].request.ports) = 3
    /\ inbox["b"].at = "answered" /\ inbox["b"].status_code = 200
    /\ inbox["c"].at = "answered" /\ inbox["c"].status_code = 400
    /\ inbox["c"].request = [path |-> "start", targets |-> <<>>, ports |-> <<80, 443, 22>>]
    /\ content = AlreadyRunning
    /\ \E w \in Workers : task[w].pc = "gather"

\* C31: the run loop cannot deadlock under unresponsive targets.  Given that
\* every network call of a probe completes or times out, every batch that a
\* worker has dispatched eventually joins, which takes the worker to its
\* next check of running.
C31_BatchEventuallyJoins ==
    \A w \in Workers : (task[w].pc = "gather") ~> (task[w].pc # "gather")

\* A worker waits for a batch of which one call has returned None and the
\* other is still at its screenshot.
C31_Witness ==
    \E w \in Workers :
        /\ task[w].pc = "gather"
        /\ calls.pc = "gather"
        /\ calls.call[1].ret = "None"
        /\ calls.call[2].at = "shot"

\* Call k of the batch in flight has its response: the HTTP fetch succeeded.
Fetched(k) == calls.pc = "gather" /\ calls.call[k].status_code \in StatusCodes

\* C32: when the HTTP fetch of a probe has succeeded, no later await of the
\* probe makes it return None or changes a field other than its own: the
\* lookups write hostname and country, the vulnerability check the three
\* vulnerability fields, the screenshot screenshot_path, whatever their
\* outcome.  gather hands the worker a result for every fetched probe, and
\* a worker that is through with the batch of a run still running has
\* persisted and published every result.
C32_DegradedResultKept ==
    [][ /\ \A k \in Calls :
             (Fetched(k) /\ calls'.pc = "gather") =>
                LET c == calls.call[k]
                    d == calls'.call[k]
                IN  /\ d.ret # "None"
                    /\ d.ret = "dict" => d.at = "returned"
                    /\ <<d.port, d.protocol, d.status_code, d.ssl_issuer>>
                         = <<c.port, c.protocol, c.status_code, c.ssl_issuer>>
                    /\ d.port \in ValidPorts
                    /\ c.at # "lookups" => <<d.hostname, d.country>> = <<c.hostname, c.country>>
                    /\ c.at # "vuln" =>
                         <<d.vulnerabilities, d.vuln_count, d.vuln_max_risk>>
                           = <<c.vulnerabilities, c.vuln_count, c.vuln_max_risk>>
                    /\ c.at # "shot" => d.screenshot_path = c.screenshot_path
        /\ \A w \in Workers :
             /\ (task[w].pc = "gather" /\ task'[w].pc # "gather")
                => /\ \A k \in Calls : Fetched(k) <=> calls.call[k].ret = "dict"
                   /\ hist'.hits = hist.hits + Cardinality({ k \in Calls : Fetched(k) })
             /\ (task[w].pc # "sleep" /\ task'[w].pc = "sleep" /\ scan_state'.running)
                => /\ hist'.persisted = hist'.hits
                   /\ hist'.published = hist'.hits
                   /\ scan_state'.total_found = hist'.hits ]_vars

\* A worker is through with a batch of a run still running in which both
\* followed probes were fetched and came back with a field left empty by a
\* failed lookup or screenshot: both results are persisted and published.
C32_Witness ==
    \E w \in Workers :
        /\ task[w].pc = "sleep"
        /\ scan_state.running
        /\ calls.pc = "joined"
        /\ calls.degraded = Cardinality(Calls)
        /\ hist.batches = 1
        /\ hist.persisted = Cardinality(Calls)
        /\ hist.published = Cardinality(Calls)

\* C34: the optional collaborators of a probe run only when enabled.  In a
\* call that has returned a result, run_vuln_scan was invoked if and only if
\* run_vuln_check is true, and without it vuln_count is 0, vuln_max_risk is
\* info and vulnerabilities is None; take_screenshot was invoked if and only
\* if take_screenshots is true and the status is below 400, and without it
\* screenshot_path is None.  A call that is at one of the two collaborators
\* has it enabled.
C34_CollaboratorsOnlyWhenEnabled ==
    calls.pc = "gather" =>
       \A k \in Calls :
          LET c == calls.call[k]
          IN  /\ c.ret = "dict" =>
                   /\ c.vuln_invoked <=> calls.run_vuln_check
                   /\ ~calls.run_vuln_check =>
                         /\ c.vuln_count = 0
                         /\ c.vuln_max_risk = "info"
                         /\ c.vulnerabilities = "None"
                   /\ c.shot_invoked <=> (calls.take_screenshots /\ c.status_code < 400)
                   /\ ~(calls.take_screenshots /\ c.status_code < 400) =>
                         c.screenshot_path = "None"
              /\ c.at = "vuln" => c.vuln_invoked /\ calls.run_vuln_check
              /\ c.at = "shot" =>
                   c.shot_invoked /\ calls.take_screenshots /\ c.status_code < 400
              /\ c.vuln_invoked => calls.run_vuln_check
              /\ c.shot_invoked => calls.take_screenshots

\* With both collaborators enabled, a probe answered 200 has returned its
\* result after the vulnerability check found two findings and the
\* screenshot was taken, and in the same batch a probe answered 404 has
\* returned its result without a screenshot.
C34_Witness ==
    /\ calls.pc = "gather"
    /\ calls.run_vuln_check
    /\ calls.take_screenshots
    /\ calls.call[1].ret = "dict"
    /\ calls.call[1].status_code = 200
    /\ calls.call[1].vuln_count = 2
    /\ calls.call[1].vuln_max_risk = "medium"
    /\ calls.call[1].shot_invoked
    /\ calls.call[1].screenshot_path = "file"
    /\ calls.call[2].ret = "dict"
    /\ calls.call[2].status_code = 404
    /\ calls.call[2].vuln_invoked
    /\ ~calls.call[2].shot_invoked
    /\ calls.call[2].screenshot_path = "None"

====
